---- MODULE Spec2Model ----
(***************************************************************************)
(* Prep2Hire backend: the session store and HTTP handlers of main.py, the  *)
(* interview engine (adaptive difficulty, early termination, question      *)
(* rotation) and the scoring engine.                                       *)
(*                                                                         *)
(* Conventions.                                                            *)
(*  - Scores are fixed-point numbers in hundredths of a point (7500 is     *)
(*    75.00): score_answer rounds every score to two decimals.  A value    *)
(*    that the code holds unrounded is a fraction <<num, den>> of points.  *)
(*    Python's binary floats are replaced by exact arithmetic.             *)
(*  - An Optional value is a sequence of length 0 (None) or 1.             *)
(*  - An answer text is given by what the code reads from it: the number   *)
(*    of leading whitespace, body and trailing whitespace characters, the  *)
(*    number of words, the lowercase strings it contains, and so on.       *)
(*  - A question text is the tuple of the parts of its template with the   *)
(*    skill substituted, plus the number of distinct words of four or      *)
(*    more letters in it.                                                  *)
(***************************************************************************)
EXTENDS Integers, Sequences, FiniteSets, TLC

VARIABLES
    active_sessions,  \* main.py: the global dict session_id -> SessionData
    clock,            \* datetime.now().timestamp()
    response,         \* the response (or HTTP error) of the last handler
    probe             \* arguments and result of a function applied on its own

vars == <<active_sessions, clock, response, probe>>

----------------------------------------------------------------------------
(* Bounds *)

MaxClock == 2        \* clock readings 1..MaxClock
MaxAsked == 1        \* Spec: start_interview only below this many questions
                     \* asked over all live sessions
MaxScores == 1       \* Spec: submit_answer only below this many scores
                     \* recorded over all live sessions
MaxRunAsked == 3     \* SpecInterview: start_interview only below this many
MaxRunScores == 11   \* SpecInterview: submit_answer only below this many
MaxResetAsked == 3   \* SpecReset: start_interview only below this many
MaxResetScores == 4  \* SpecReset: submit_answer only below this many
MaxTime == 600       \* largest time_taken tried on the time score
MaxListLen == 4      \* longest score list tried on the engine's functions
MaxPad == 11         \* most whitespace characters around an answer
MaxBody == 11        \* longest answer body tried on the scorer's guard
MaxWords == 400      \* most words of an answer tried on the scorer
MaxReportLen == 3    \* longest score list tried on the final report
MaxTextParts == 3    \* most pieces of a resume or JD text
MaxTasks == 2        \* most requests in flight on the session
MaxPairAsked == 2    \* questions asked per session, two sessions side by side
MaxPairScores == 2   \* scores recorded per session, two sessions side by side

----------------------------------------------------------------------------
(* Generic helpers *)

None == <<>>
Some(x) == <<x>>

Min(a, b) == IF a <= b THEN a ELSE b
Max(a, b) == IF a >= b THEN a ELSE b

\* Python int(): truncation toward zero of num/den, den > 0
TruncDiv(num, den) == IF num >= 0 THEN num \div den ELSE -((-num) \div den)

RECURSIVE SumSeq(_)
SumSeq(s) == IF s = <<>> THEN 0 ELSE s[1] + SumSeq(Tail(s))

\* s[-n:]
LastN(s, n) == IF Len(s) <= n THEN s ELSE SubSeq(s, Len(s) - n + 1, Len(s))

Range(s) == {s[i] : i \in 1..Len(s)}

RECURSIVE Flatten(_)
Flatten(ss) == IF ss = <<>> THEN <<>> ELSE ss[1] \o Flatten(Tail(ss))

\* round(num/den points, 2) in hundredths; ties go to the even hundredth
Round2(num, den) ==
    LET n == 100 * num
        q == n \div den
        r == n % den
    IN  IF 2 * r < den THEN q
        ELSE IF 2 * r > den THEN q + 1
        ELSE IF q % 2 = 0 THEN q ELSE q + 1

\* round(num/den points, 2) of a weighted sum of floats: off a tie it is the
\* nearest hundredth; on an exact tie the float's rounding error decides,
\* so it is either neighbour
RoundFloat(num, den) ==
    LET n == 100 * num
        q == n \div den
        r == n % den
    IN  IF 2 * r < den THEN {q}
        ELSE IF 2 * r > den THEN {q + 1}
        ELSE {q, q + 1}

----------------------------------------------------------------------------
(* scoring_engine.py: ScoringEngine *)

Metrics == <<"accuracy", "clarity", "depth", "relevance", "time_efficiency">>

\* self.weights, in hundredths (0.30 is 30)
weights ==
    [accuracy |-> 30, clarity |-> 20, depth |-> 25, relevance |-> 15,
     time_efficiency |-> 10]

structure_markers ==
    {"first", "second", "then", "because", "therefore", "however",
     "for example", "in conclusion"}

\* str.lower() on the strings that reach the scorer as expected topics
Lower(s) ==
    CASE s = "Python" -> "python"
      [] s = "Docker" -> "docker"
      [] OTHER -> s

\* metric.replace('_', ' ').title()
Title(metric) ==
    CASE metric = "accuracy" -> "Accuracy"
      [] metric = "clarity" -> "Clarity"
      [] metric = "depth" -> "Depth"
      [] metric = "relevance" -> "Relevance"
      [] metric = "time_efficiency" -> "Time Efficiency"
      [] OTHER -> metric

\* len(answer) and len(answer.strip())
AnswerLen(answer) == answer.lead + answer.body + answer.trail
\* the length taken without strip()
StripLen_untrimmed(answer) == answer.lead + answer.body + answer.trail

StripLen(answer) == answer.body

\* _calculate_time_score: whole points; max_time * 0.6 and max_time * 0.8
\* are compared after multiplying through by 10
\* _calculate_time_score without the max(0, ...) of its last branch
calculate_time_score_unfloored(time_taken, max_time) ==
    IF time_taken <= 0 THEN 0
    ELSE IF 6 * max_time <= 10 * time_taken /\ 10 * time_taken <= 8 * max_time
         THEN 100
    ELSE IF 10 * time_taken < 6 * max_time
         THEN TruncDiv(1000 * time_taken, 6 * max_time)
    ELSE IF time_taken <= max_time
         THEN TruncDiv(180 * max_time - 100 * time_taken, max_time)
    ELSE 50 - TruncDiv(time_taken - max_time, 10)

calculate_time_score(time_taken, max_time) ==
    IF time_taken <= 0 THEN 0
    ELSE IF 6 * max_time <= 10 * time_taken /\ 10 * time_taken <= 8 * max_time
         THEN 100
    ELSE IF 10 * time_taken < 6 * max_time
         THEN TruncDiv(1000 * time_taken, 6 * max_time)
    ELSE IF time_taken <= max_time
         THEN TruncDiv(180 * max_time - 100 * time_taken, max_time)
    ELSE Max(0, 50 - TruncDiv(time_taken - max_time, 10))

ZeroScore ==
    [accuracy |-> 0, clarity |-> 0, depth |-> 0, relevance |-> 0,
     time_efficiency |-> 0, overall |-> 0,
     feedback |-> "Answer is too short or empty."]

\* score_answer with the min(100, ...) of the clarity score left out
score_answer_clarity_unclamped(question, answer, expected_topics, time_taken, max_time) ==
    IF AnswerLen(answer) = 0 \/ StripLen(answer) < 10 THEN {ZeroScore}
    ELSE
    LET word_count == answer.words
        topics_covered ==
            Cardinality({i \in 1..Len(expected_topics) :
                            Lower(expected_topics[i]) \in answer.contains})
        accD == Max(Len(expected_topics), 1)
        accN == Min(100 * accD, 100 * topics_covered)
        has_structure == \E m \in structure_markers : m \in answer.contains
        clarity == word_count + (IF has_structure THEN 50 ELSE 0)
        depth10 == Min(1000, 7 * word_count + 50 * answer.technical_terms)
        relD == Max(question.words, 1)
        overlap == Min(answer.echo, question.words)
        relN == Min(100 * relD, 100 * overlap)
        time_efficiency == calculate_time_score(time_taken, max_time)
        ovN == weights.accuracy * accN * relD * 10
               + weights.clarity * clarity * accD * relD * 10
               + weights.depth * depth10 * accD * relD
               + weights.relevance * relN * accD * 10
               + weights.time_efficiency * time_efficiency * accD * relD * 10
        ovD == 1000 * accD * relD
    IN  {[accuracy |-> Round2(accN, accD),
          clarity |-> Round2(clarity, 1),
          depth |-> Round2(depth10, 10),
          relevance |-> Round2(relN, relD),
          time_efficiency |-> Round2(time_efficiency, 1),
          overall |-> overall,
          feedback |-> "Covered " \o ToString(topics_covered) \o "/"
                       \o ToString(Len(expected_topics))
                       \o " expected topics with a "
                       \o (IF has_structure THEN "clear" ELSE "basic")
                       \o " explanation."] :
            overall \in RoundFloat(ovN, ovD)}

\* score_answer: the records the call can return (one, or two on a tie of
\* the overall score between two hundredths)
score_answer(question, answer, expected_topics, time_taken, max_time) ==
    IF AnswerLen(answer) = 0 \/ StripLen(answer) < 10 THEN {ZeroScore}
    ELSE
    LET word_count == answer.words
        topics_covered ==
            Cardinality({i \in 1..Len(expected_topics) :
                            Lower(expected_topics[i]) \in answer.contains})
        accD == Max(Len(expected_topics), 1)
        accN == Min(100 * accD, 100 * topics_covered)
        has_structure == \E m \in structure_markers : m \in answer.contains
        clarity == Min(100, word_count + (IF has_structure THEN 50 ELSE 0))
        \* depth in tenths of a point
        depth10 == Min(1000, 7 * word_count + 50 * answer.technical_terms)
        relD == Max(question.words, 1)
        overlap == Min(answer.echo, question.words)
        relN == Min(100 * relD, 100 * overlap)
        time_efficiency == calculate_time_score(time_taken, max_time)
        ovN == weights.accuracy * accN * relD * 10
               + weights.clarity * clarity * accD * relD * 10
               + weights.depth * depth10 * accD * relD
               + weights.relevance * relN * accD * 10
               + weights.time_efficiency * time_efficiency * accD * relD * 10
        ovD == 1000 * accD * relD
    IN  {[accuracy |-> Round2(accN, accD),
          clarity |-> Round2(clarity, 1),
          depth |-> Round2(depth10, 10),
          relevance |-> Round2(relN, relD),
          time_efficiency |-> Round2(time_efficiency, 1),
          overall |-> overall,
          feedback |-> "Covered " \o ToString(topics_covered) \o "/"
                       \o ToString(Len(expected_topics))
                       \o " expected topics with a "
                       \o (IF has_structure THEN "clear" ELSE "basic")
                       \o " explanation."] :
            overall \in RoundFloat(ovN, ovD)}

\* sum(values) / len(values) of a metric over all_scores, as a fraction of
\* hundredths
AvgScore(all_scores, metric) ==
    <<SumSeq([i \in 1..Len(all_scores) |-> all_scores[i][metric]]),
      Len(all_scores)>>

\* a mean, given as a fraction of hundredths, lies halfway between two
\* hundredths
IsTie(f) == 2 * (f[1] % f[2]) = f[2]

\* round(v, 2) of a mean, given as a fraction of hundredths: the nearest
\* hundredth; on an exact tie the rounding error of the float decides, up
\* when tie_up
RoundAvg(f, tie_up) ==
    LET q == f[1] \div f[2]
        r == f[1] % f[2]
    IN  IF 2 * r < f[2] THEN q
        ELSE IF 2 * r > f[2] THEN q + 1
        ELSE IF tie_up THEN q + 1 ELSE q

\* the report of an empty list with another readiness
EmptyReport_conditional ==
    [final_score |-> 0,
     skill_breakdown |-> <<>>,
     strengths |-> <<>>,
     weaknesses |-> <<>>,
     recommendation |-> "Unable to assess - no answers provided",
     hiring_readiness |-> "CONDITIONAL",
     total_questions |-> None]

EmptyReport ==
    [final_score |-> 0,
     skill_breakdown |-> <<>>,
     strengths |-> <<>>,
     weaknesses |-> <<>>,
     recommendation |-> "Unable to assess - no answers provided",
     hiring_readiness |-> "NOT RECOMMENDED",
     total_questions |-> None]

\* the metrics averaging 75 or more, title-cased, in the order of self.weights
strengths_of(all_scores) ==
    LET avg(metric) == AvgScore(all_scores, metric)
        IsStrength(metric) == avg(metric)[1] >= 7500 * avg(metric)[2]
        strong == SelectSeq(Metrics, IsStrength)
    IN  [i \in 1..Len(strong) |-> Title(strong[i])]

\* weaknesses with <= 50 in place of < 50
weaknesses_of_inclusive(all_scores) ==
    LET avg(metric) == AvgScore(all_scores, metric)
        IsWeakness(metric) == avg(metric)[1] <= 5000 * avg(metric)[2]
        weak == SelectSeq(Metrics, IsWeakness)
    IN  [i \in 1..Len(weak) |-> Title(weak[i])]

\* the metrics averaging less than 50
weaknesses_of(all_scores) ==
    LET avg(metric) == AvgScore(all_scores, metric)
        IsWeakness(metric) == avg(metric)[1] < 5000 * avg(metric)[2]
        weak == SelectSeq(Metrics, IsWeakness)
    IN  [i \in 1..Len(weak) |-> Title(weak[i])]

\* the verdict with > 80 in place of >= 80
hiring_verdict_exclusive(final) ==
    IF final[1] > 8000 * final[2]
    THEN <<"Excellent - Ready for interviews", "HIGHLY RECOMMENDED">>
    ELSE IF final[1] >= 6500 * final[2]
    THEN <<"Good - Minor improvements needed", "RECOMMENDED">>
    ELSE IF final[1] >= 5000 * final[2]
    THEN <<"Fair - Needs practice", "CONDITIONAL">>
    ELSE <<"Needs significant improvement", "NOT RECOMMENDED">>

\* recommendation and hiring_readiness of a mean overall score, the mean
\* given as a fraction of hundredths
hiring_verdict(final) ==
    IF final[1] >= 8000 * final[2]
    THEN <<"Excellent - Ready for interviews", "HIGHLY RECOMMENDED">>
    ELSE IF final[1] >= 6500 * final[2]
    THEN <<"Good - Minor improvements needed", "RECOMMENDED">>
    ELSE IF final[1] >= 5000 * final[2]
    THEN <<"Fair - Needs practice", "CONDITIONAL">>
    ELSE <<"Needs significant improvement", "NOT RECOMMENDED">>

\* calculate_final_score: the reports the call can return (one, or more
\* when a mean is an exact tie between two hundredths; equal means round
\* alike)
calculate_final_score(all_scores) ==
    IF all_scores = <<>> THEN {EmptyReport}
    ELSE
    LET AllMetrics == Metrics \o <<"overall">>
        avg(metric) == AvgScore(all_scores, metric)
        strengths == strengths_of(all_scores)
        weaknesses == weaknesses_of(all_scores)
        final == avg("overall")
        verdict == hiring_verdict(final)
        ties == {avg(metric) : metric \in
                    {m \in Range(AllMetrics) : IsTie(avg(m))}}
    IN  {[final_score |-> RoundAvg(final, final \in ups),
          skill_breakdown |->
              [i \in 1..Len(AllMetrics) |->
                  <<AllMetrics[i],
                    RoundAvg(avg(AllMetrics[i]), avg(AllMetrics[i]) \in ups)>>],
          strengths |->
              IF strengths = <<>> THEN <<"None identified">> ELSE strengths,
          weaknesses |->
              IF weaknesses = <<>> THEN <<"None identified">> ELSE weaknesses,
          recommendation |-> verdict[1],
          hiring_readiness |-> verdict[2],
          total_questions |-> Some(Len(all_scores))] : ups \in SUBSET ties}

\* the divisors _calculate_time_score divides by on the path it takes, in
\* tenths of a second: optimal_min = 0.6 max_time in the early branch,
\* max_time - optimal_max = 0.2 max_time in the late branch (the constant 10
\* of the overtime branch is left out)
time_score_divisors(time_taken, max_time) ==
    IF time_taken <= 0 THEN {}
    ELSE IF 6 * max_time <= 10 * time_taken /\ 10 * time_taken <= 8 * max_time
         THEN {}
    ELSE IF 10 * time_taken < 6 * max_time THEN {6 * max_time}
    ELSE IF time_taken <= max_time THEN {2 * max_time}
    ELSE {}

\* what a call of score_answer ends in: the records it can return, or the
\* ZeroDivisionError of a division by zero on the way
call_score_answer(question, answer, expected_topics, time_taken, max_time) ==
    IF AnswerLen(answer) = 0 \/ StripLen(answer) < 10
    THEN score_answer(question, answer, expected_topics, time_taken, max_time)
    ELSE IF 0 \in time_score_divisors(time_taken, max_time)
    THEN {[error |-> "ZeroDivisionError"]}
    ELSE score_answer(question, answer, expected_topics, time_taken, max_time)

----------------------------------------------------------------------------
(* interview_engine.py: InterviewEngine *)

difficulty_levels == <<"easy", "medium", "hard">>
question_types == <<"technical", "conceptual", "behavioral", "scenario-based">>
max_questions == 10
time_limit == 60

\* InterviewEngine.__init__
NewEngine ==
    [current_difficulty |-> "easy",
     question_count |-> 0,
     max_questions |-> max_questions]

\* The templates; each with the number of distinct words of four or more
\* letters in its fixed text (the words re.findall(r'\b\w{4,}\b') returns)
QUESTION_BANK ==
    [difficulty \in {"easy", "medium", "hard"} |->
      [question_type \in
         {"technical", "conceptual", "behavioral", "scenario-based"} |->
        CASE difficulty = "easy" /\ question_type = "technical" ->
          <<
            [parts |-> <<"What is ", "{skill}", " and where have you used it?">>,
             words |-> 4],
            [parts |-> <<"Explain basic features of ", "{skill}", ".">>,
             words |-> 3]>>
          [] difficulty = "easy" /\ question_type = "conceptual" ->
          <<
            [parts |-> <<"What problem does ", "{skill}", " solve?">>,
             words |-> 4],
            [parts |-> <<"Explain core concepts of ", "{skill}", ".">>,
             words |-> 3]>>
          [] difficulty = "easy" /\ question_type = "behavioral" ->
          <<
            [parts |-> <<"Tell me about a project you enjoyed working on.">>,
             words |-> 5],
            [parts |-> <<"How do you approach learning a new technology?">>,
             words |-> 3]>>
          [] difficulty = "easy" /\ question_type = "scenario-based" ->
          <<
            [parts |-> <<"How would you debug a simple error in your application?">>,
             words |-> 6],
            [parts |-> <<"What steps do you take when your code doesn't work?">>,
             words |-> 8]>>
          [] difficulty = "medium" /\ question_type = "technical" ->
          <<
            [parts |-> <<"How would you optimize performance in a ", "{skill}", " project?">>,
             words |-> 4],
            [parts |-> <<"Explain common challenges you faced while using ", "{skill}", ".">>,
             words |-> 6]>>
          [] difficulty = "medium" /\ question_type = "conceptual" ->
          <<
            [parts |-> <<"Compare ", "{skill}", " with an alternative technology.">>,
             words |-> 4],
            [parts |-> <<"Explain trade-offs involved when using ", "{skill}", ".">>,
             words |-> 6]>>
          [] difficulty = "medium" /\ question_type = "behavioral" ->
          <<
            [parts |-> <<"Describe a challenging project and how you handled it.">>,
             words |-> 4],
            [parts |-> <<"Tell me about a time you worked under pressure.">>,
             words |-> 6]>>
          [] difficulty = "medium" /\ question_type = "scenario-based" ->
          <<
            [parts |-> <<"How would you design a scalable web application?">>,
             words |-> 4],
            [parts |-> <<"How would you handle a production bug reported by users?">>,
             words |-> 5]>>
          [] difficulty = "hard" /\ question_type = "technical" ->
          <<
            [parts |-> <<"Design a scalable system using ", "{skill}", " for millions of users.">>,
             words |-> 6],
            [parts |-> <<"How would you improve fault tolerance in a ", "{skill}", " system?">>,
             words |-> 5]>>
          [] difficulty = "hard" /\ question_type = "conceptual" ->
          <<
            [parts |-> <<"Explain internal architecture or algorithms behind ", "{skill}", ".">>,
             words |-> 5],
            [parts |-> <<"Discuss limitations of ", "{skill}", " in large-scale systems.">>,
             words |-> 5]>>
          [] difficulty = "hard" /\ question_type = "behavioral" ->
          <<
            [parts |-> <<"Tell me about a critical technical decision you made.">>,
             words |-> 6],
            [parts |-> <<"How do you balance speed vs quality in deadlines?">>,
             words |-> 4]>>
          [] difficulty = "hard" /\ question_type = "scenario-based" ->
          <<
            [parts |-> <<"A production system goes down suddenly. Walk me through your response.">>,
             words |-> 9],
            [parts |-> <<"How would you redesign a legacy system for scalability?">>,
             words |-> 5]>>]]

\* The same count for a skill name
SkillWords(skill) ==
    CASE skill = "Python" -> 1
      [] skill = "Docker" -> 1
      [] skill = "programming" -> 1
      [] OTHER -> 0

\* question_template.format(skill=skill)
Format(template, skill) ==
    [parts |-> [i \in 1..Len(template.parts) |->
                   IF template.parts[i] = "{skill}" THEN skill
                   ELSE template.parts[i]],
     words |-> template.words
               + (IF "{skill}" \in Range(template.parts)
                  THEN SkillWords(skill) ELSE 0)]

\* the flattened lists of a skills dict (category -> list), as a set
AllSkills(skills_dict) ==
    Range(Flatten([i \in 1..Len(skills_dict) |-> skills_dict[i].skills]))

\* list(set(resume_skills + jd_skills))
combined_skills(resume_data, jd_data) ==
    AllSkills(resume_data.skills) \cup AllSkills(jd_data.required_skills)

\* what random.choice(combined_skills) can return, or the fallback
SkillChoices(resume_data, jd_data) ==
    IF combined_skills(resume_data, jd_data) = {} THEN {"programming"}
    ELSE combined_skills(resume_data, jd_data)

\* what random.choice(templates) can pick: an index into the template list
TemplateChoices(difficulty, question_type) ==
    1..Len(QUESTION_BANK[difficulty][question_type])

\* generate_question; skill and pick are the two random draws
generate_question(resume_data, jd_data, difficulty, question_type, skill, pick) ==
    LET templates == QUESTION_BANK[difficulty][question_type]
        question_template == templates[pick]
    IN  [question |-> Format(question_template, skill),
         expected_topics |-> <<skill, question_type, difficulty>>]

\* adjust_difficulty that goes to hard from any level on a high mean
adjust_difficulty_jump(engine, recent_scores) ==
    IF recent_scores = <<>> THEN engine
    ELSE
    LET total == SumSeq(recent_scores)
        n == Len(recent_scores)
    IN  IF total > 7500 * n
        THEN [engine EXCEPT !.current_difficulty = "hard"]
        ELSE IF total < 4000 * n
        THEN IF engine.current_difficulty = "hard"
             THEN [engine EXCEPT !.current_difficulty = "medium"]
             ELSE IF engine.current_difficulty = "medium"
             THEN [engine EXCEPT !.current_difficulty = "easy"]
             ELSE engine
        ELSE engine

\* adjust_difficulty with the upper threshold compared by >=
adjust_difficulty_inclusive(engine, recent_scores) ==
    IF recent_scores = <<>> THEN engine
    ELSE
    LET total == SumSeq(recent_scores)
        n == Len(recent_scores)
    IN  IF total >= 7500 * n
        THEN IF engine.current_difficulty = "easy"
             THEN [engine EXCEPT !.current_difficulty = "medium"]
             ELSE IF engine.current_difficulty = "medium"
             THEN [engine EXCEPT !.current_difficulty = "hard"]
             ELSE engine
        ELSE IF total < 4000 * n
        THEN IF engine.current_difficulty = "hard"
             THEN [engine EXCEPT !.current_difficulty = "medium"]
             ELSE IF engine.current_difficulty = "medium"
             THEN [engine EXCEPT !.current_difficulty = "easy"]
             ELSE engine
        ELSE engine

adjust_difficulty(engine, recent_scores) ==
    IF recent_scores = <<>> THEN engine
    ELSE
    LET total == SumSeq(recent_scores)
        n == Len(recent_scores)
    IN  IF total > 7500 * n
        THEN IF engine.current_difficulty = "easy"
             THEN [engine EXCEPT !.current_difficulty = "medium"]
             ELSE IF engine.current_difficulty = "medium"
             THEN [engine EXCEPT !.current_difficulty = "hard"]
             ELSE engine
        ELSE IF total < 4000 * n
        THEN IF engine.current_difficulty = "hard"
             THEN [engine EXCEPT !.current_difficulty = "medium"]
             ELSE IF engine.current_difficulty = "medium"
             THEN [engine EXCEPT !.current_difficulty = "easy"]
             ELSE engine
        ELSE engine

\* should_terminate_early with the threshold compared by <=
should_terminate_early_inclusive(recent_scores) ==
    IF Len(recent_scores) < 3 THEN FALSE
    ELSE SumSeq(LastN(recent_scores, 3)) <= 3000 * 3

should_terminate_early(recent_scores) ==
    IF Len(recent_scores) < 3 THEN FALSE
    ELSE SumSeq(LastN(recent_scores, 3)) < 3000 * 3

\* the rotation indexed by the counter after the increment
get_next_question_type_after(engine) ==
    question_types[((engine.question_count + 1) % Len(question_types)) + 1]

get_next_question_type(engine) ==
    question_types[(engine.question_count % Len(question_types)) + 1]

\* conduct_interview that leaves the counter where it was
conduct_interview_uncounted(engine, resume_data, jd_data, skill, pick) ==
    LET question_type == get_next_question_type(engine)
        generated == generate_question(resume_data, jd_data,
                                       engine.current_difficulty,
                                       question_type, skill, pick)
    IN  [engine |-> engine,
         question_data |->
            [question_number |-> engine.question_count,
             question |-> generated.question,
             expected_topics |-> generated.expected_topics,
             difficulty |-> engine.current_difficulty,
             question_type |-> question_type,
             max_questions |-> engine.max_questions,
             time_limit |-> time_limit]]

\* conduct_interview: the engine after the call and the record returned
conduct_interview(engine, resume_data, jd_data, skill, pick) ==
    LET question_type == get_next_question_type(engine)
        generated == generate_question(resume_data, jd_data,
                                       engine.current_difficulty,
                                       question_type, skill, pick)
        after == [engine EXCEPT !.question_count = @ + 1]
    IN  [engine |-> after,
         question_data |->
            [question_number |-> after.question_count,
             question |-> generated.question,
             expected_topics |-> generated.expected_topics,
             difficulty |-> after.current_difficulty,
             question_type |-> question_type,
             max_questions |-> after.max_questions,
             time_limit |-> time_limit]]

\* reset that forgets the counter
reset_difficulty_only(engine) ==
    [engine EXCEPT !.current_difficulty = "easy"]

\* InterviewEngine.reset
reset(engine) ==
    [engine EXCEPT !.current_difficulty = "easy", !.question_count = 0]

----------------------------------------------------------------------------
(* resume_parser.py and jd_parser.py: skill extraction.  A text is the      *)
(* sequence of its characters.                                              *)

\* self.tech_skills (the same table in ResumeParser and JDParser): per
\* category the terms in order, each with its characters and with what
\* str.title() makes of it
tech_skills ==
    <<
      [category |-> "languages",
       skills |-> <<
          [term |-> "python", title |-> "Python",
           chars |-> <<"p", "y", "t", "h", "o", "n">>],
          [term |-> "java", title |-> "Java",
           chars |-> <<"j", "a", "v", "a">>],
          [term |-> "javascript", title |-> "Javascript",
           chars |-> <<"j", "a", "v", "a", "s", "c", "r", "i", "p", "t">>],
          [term |-> "typescript", title |-> "Typescript",
           chars |-> <<"t", "y", "p", "e", "s", "c", "r", "i", "p", "t">>],
          [term |-> "c++", title |-> "C++",
           chars |-> <<"c", "+", "+">>],
          [term |-> "c#", title |-> "C#",
           chars |-> <<"c", "#">>],
          [term |-> "ruby", title |-> "Ruby",
           chars |-> <<"r", "u", "b", "y">>],
          [term |-> "go", title |-> "Go",
           chars |-> <<"g", "o">>],
          [term |-> "rust", title |-> "Rust",
           chars |-> <<"r", "u", "s", "t">>],
          [term |-> "php", title |-> "Php",
           chars |-> <<"p", "h", "p">>],
          [term |-> "swift", title |-> "Swift",
           chars |-> <<"s", "w", "i", "f", "t">>],
          [term |-> "kotlin", title |-> "Kotlin",
           chars |-> <<"k", "o", "t", "l", "i", "n">>],
          [term |-> "scala", title |-> "Scala",
           chars |-> <<"s", "c", "a", "l", "a">>],
          [term |-> "r", title |-> "R",
           chars |-> <<"r">>],
          [term |-> "matlab", title |-> "Matlab",
           chars |-> <<"m", "a", "t", "l", "a", "b">>]>>],
      [category |-> "frameworks",
       skills |-> <<
          [term |-> "react", title |-> "React",
           chars |-> <<"r", "e", "a", "c", "t">>],
          [term |-> "angular", title |-> "Angular",
           chars |-> <<"a", "n", "g", "u", "l", "a", "r">>],
          [term |-> "vue", title |-> "Vue",
           chars |-> <<"v", "u", "e">>],
          [term |-> "django", title |-> "Django",
           chars |-> <<"d", "j", "a", "n", "g", "o">>],
          [term |-> "flask", title |-> "Flask",
           chars |-> <<"f", "l", "a", "s", "k">>],
          [term |-> "fastapi", title |-> "Fastapi",
           chars |-> <<"f", "a", "s", "t", "a", "p", "i">>],
          [term |-> "spring", title |-> "Spring",
           chars |-> <<"s", "p", "r", "i", "n", "g">>],
          [term |-> "express", title |-> "Express",
           chars |-> <<"e", "x", "p", "r", "e", "s", "s">>],
          [term |-> "node.js", title |-> "Node.Js",
           chars |-> <<"n", "o", "d", "e", ".", "j", "s">>],
          [term |-> "nodejs", title |-> "Nodejs",
           chars |-> <<"n", "o", "d", "e", "j", "s">>],
          [term |-> ".net", title |-> ".Net",
           chars |-> <<".", "n", "e", "t">>],
          [term |-> "laravel", title |-> "Laravel",
           chars |-> <<"l", "a", "r", "a", "v", "e", "l">>],
          [term |-> "rails", title |-> "Rails",
           chars |-> <<"r", "a", "i", "l", "s">>]>>],
      [category |-> "databases",
       skills |-> <<
          [term |-> "mysql", title |-> "Mysql",
           chars |-> <<"m", "y", "s", "q", "l">>],
          [term |-> "postgresql", title |-> "Postgresql",
           chars |-> <<"p", "o", "s", "t", "g", "r", "e", "s", "q", "l">>],
          [term |-> "mongodb", title |-> "Mongodb",
           chars |-> <<"m", "o", "n", "g", "o", "d", "b">>],
          [term |-> "redis", title |-> "Redis",
           chars |-> <<"r", "e", "d", "i", "s">>],
          [term |-> "cassandra", title |-> "Cassandra",
           chars |-> <<"c", "a", "s", "s", "a", "n", "d", "r", "a">>],
          [term |-> "dynamodb", title |-> "Dynamodb",
           chars |-> <<"d", "y", "n", "a", "m", "o", "d", "b">>],
          [term |-> "oracle", title |-> "Oracle",
           chars |-> <<"o", "r", "a", "c", "l", "e">>],
          [term |-> "sql server", title |-> "Sql Server",
           chars |-> <<"s", "q", "l", " ", "s", "e", "r", "v", "e", "r">>],
          [term |-> "sqlite", title |-> "Sqlite",
           chars |-> <<"s", "q", "l", "i", "t", "e">>]>>],
      [category |-> "cloud",
       skills |-> <<
          [term |-> "aws", title |-> "Aws",
           chars |-> <<"a", "w", "s">>],
          [term |-> "azure", title |-> "Azure",
           chars |-> <<"a", "z", "u", "r", "e">>],
          [term |-> "gcp", title |-> "Gcp",
           chars |-> <<"g", "c", "p">>],
          [term |-> "google cloud", title |-> "Google Cloud",
           chars |-> <<"g", "o", "o", "g", "l", "e", " ", "c", "l", "o", "u", "d">>],
          [term |-> "kubernetes", title |-> "Kubernetes",
           chars |-> <<"k", "u", "b", "e", "r", "n", "e", "t", "e", "s">>],
          [term |-> "docker", title |-> "Docker",
           chars |-> <<"d", "o", "c", "k", "e", "r">>],
          [term |-> "terraform", title |-> "Terraform",
           chars |-> <<"t", "e", "r", "r", "a", "f", "o", "r", "m">>],
          [term |-> "jenkins", title |-> "Jenkins",
           chars |-> <<"j", "e", "n", "k", "i", "n", "s">>],
          [term |-> "ci/cd", title |-> "Ci/Cd",
           chars |-> <<"c", "i", "/", "c", "d">>]>>],
      [category |-> "ml_ai",
       skills |-> <<
          [term |-> "tensorflow", title |-> "Tensorflow",
           chars |-> <<"t", "e", "n", "s", "o", "r", "f", "l", "o", "w">>],
          [term |-> "pytorch", title |-> "Pytorch",
           chars |-> <<"p", "y", "t", "o", "r", "c", "h">>],
          [term |-> "scikit-learn", title |-> "Scikit-Learn",
           chars |-> <<"s", "c", "i", "k", "i", "t", "-", "l", "e", "a", "r", "n">>],
          [term |-> "keras", title |-> "Keras",
           chars |-> <<"k", "e", "r", "a", "s">>],
          [term |-> "pandas", title |-> "Pandas",
           chars |-> <<"p", "a", "n", "d", "a", "s">>],
          [term |-> "numpy", title |-> "Numpy",
           chars |-> <<"n", "u", "m", "p", "y">>],
          [term |-> "machine learning", title |-> "Machine Learning",
           chars |-> <<"m", "a", "c", "h", "i", "n", "e", " ", "l", "e", "a", "r", "n", "i", "n", "g">>],
          [term |-> "deep learning", title |-> "Deep Learning",
           chars |-> <<"d", "e", "e", "p", " ", "l", "e", "a", "r", "n", "i", "n", "g">>],
          [term |-> "nlp", title |-> "Nlp",
           chars |-> <<"n", "l", "p">>],
          [term |-> "computer vision", title |-> "Computer Vision",
           chars |-> <<"c", "o", "m", "p", "u", "t", "e", "r", " ", "v", "i", "s", "i", "o", "n">>]>>],
      [category |-> "tools",
       skills |-> <<
          [term |-> "git", title |-> "Git",
           chars |-> <<"g", "i", "t">>],
          [term |-> "jira", title |-> "Jira",
           chars |-> <<"j", "i", "r", "a">>],
          [term |-> "confluence", title |-> "Confluence",
           chars |-> <<"c", "o", "n", "f", "l", "u", "e", "n", "c", "e">>],
          [term |-> "agile", title |-> "Agile",
           chars |-> <<"a", "g", "i", "l", "e">>],
          [term |-> "scrum", title |-> "Scrum",
           chars |-> <<"s", "c", "r", "u", "m">>],
          [term |-> "rest api", title |-> "Rest Api",
           chars |-> <<"r", "e", "s", "t", " ", "a", "p", "i">>],
          [term |-> "graphql", title |-> "Graphql",
           chars |-> <<"g", "r", "a", "p", "h", "q", "l">>],
          [term |-> "microservices", title |-> "Microservices",
           chars |-> <<"m", "i", "c", "r", "o", "s", "e", "r", "v", "i", "c", "e", "s">>]>>]>>

UpperCase ==
    <<"A", "B", "C", "D", "E", "F", "G", "H", "I", "J", "K", "L", "M", "N",
      "O", "P", "Q", "R", "S", "T", "U", "V", "W", "X", "Y", "Z">>

LowerCase ==
    <<"a", "b", "c", "d", "e", "f", "g", "h", "i", "j", "k", "l", "m", "n",
      "o", "p", "q", "r", "s", "t", "u", "v", "w", "x", "y", "z">>

Digits == {"0", "1", "2", "3", "4", "5", "6", "7", "8", "9"}

\* str.lower(), character by character
lower(text) ==
    [i \in 1..Len(text) |->
        IF \E k \in 1..26 : UpperCase[k] = text[i]
        THEN LowerCase[CHOOSE k \in 1..26 : UpperCase[k] = text[i]]
        ELSE text[i]]

\* the characters \w matches
is_word_char(c) ==
    c \in Range(UpperCase) \cup Range(LowerCase) \cup Digits \cup {"_"}

\* \b before position i of the text (i = Len(text) + 1 is its end): a word
\* character on exactly one side
word_boundary(text, i) ==
    LET before == i > 1 /\ is_word_char(text[i - 1])
        after == i <= Len(text) /\ is_word_char(text[i])
    IN  before # after

\* re.search(r'\b' + re.escape(skill) + r'\b', text)
re_search(chars, text) ==
    \E p \in 1..(Len(text) - Len(chars) + 1) :
        /\ word_boundary(text, p)
        /\ SubSeq(text, p, p + Len(chars) - 1) = chars
        /\ word_boundary(text, p + Len(chars))

\* ResumeParser.extract_skills: the mapping category -> found skills as a
\* sequence of records, in the order of the table, empty categories left out
extract_skills(text) ==
    LET text_lower == lower(text)
        Found(skill) == re_search(skill.chars, text_lower)
        found_skills(skills) ==
            LET found == SelectSeq(skills, Found)
            IN  [i \in 1..Len(found) |-> found[i].title]
        per_category ==
            [c \in 1..Len(tech_skills) |->
                [category |-> tech_skills[c].category,
                 skills |-> found_skills(tech_skills[c].skills)]]
        NonEmpty(entry) == entry.skills # <<>>
    IN  SelectSeq(per_category, NonEmpty)

\* JDParser.extract_required_skills: the same statements over the same table
extract_required_skills(text) == extract_skills(text)

----------------------------------------------------------------------------
(* jd_parser.py: JDParser.compute_skill_match *)

LowerSkills(skills_dict) == {Lower(x) : x \in AllSkills(skills_dict)}

\* compute_skill_match that compares the skills as they are written
compute_skill_match_case_sensitive(resume_skills, jd_skills) ==
    LET resume_skill_set == AllSkills(resume_skills)
        jd_skill_set == AllSkills(jd_skills)
        matched_skills == resume_skill_set \cap jd_skill_set
        missing_skills == jd_skill_set \ resume_skill_set
    IN  [match_percentage |->
            IF Cardinality(jd_skill_set) = 0 THEN 0
            ELSE Round2(100 * Cardinality(matched_skills),
                        Cardinality(jd_skill_set)),
         matched_skills |-> matched_skills,
         missing_skills |-> missing_skills,
         total_jd_skills |-> Cardinality(jd_skill_set),
         total_matched |-> Cardinality(matched_skills)]

compute_skill_match(resume_skills, jd_skills) ==
    LET resume_skill_set == LowerSkills(resume_skills)
        jd_skill_set == LowerSkills(jd_skills)
        matched_skills == resume_skill_set \cap jd_skill_set
        missing_skills == jd_skill_set \ resume_skill_set
    IN  [match_percentage |->
            IF Cardinality(jd_skill_set) = 0 THEN 0
            ELSE Round2(100 * Cardinality(matched_skills),
                        Cardinality(jd_skill_set)),
         matched_skills |-> matched_skills,
         missing_skills |-> missing_skills,
         total_jd_skills |-> Cardinality(jd_skill_set),
         total_matched |-> Cardinality(matched_skills)]

----------------------------------------------------------------------------
(* main.py: the session store and the handlers *)

allowed_types == {"application/pdf", "text/plain"}

\* f"session_{datetime.now().timestamp()}"
SessionId(t) == "session_" \o ToString(t)

\* SessionData.__init__
NewSession(now) ==
    [resume_data |-> None,
     jd_data |-> None,
     interview_engine |-> None,
     scoring_engine |-> None,
     questions_asked |-> <<>>,
     answers_given |-> <<>>,
     scores |-> <<>>,
     created_at |-> now]

\* active_sessions[session_id] = session
Put(sessions, session_id, session) ==
    [id \in (DOMAIN sessions) \cup {session_id} |->
        IF id = session_id THEN session ELSE sessions[id]]

\* del active_sessions[session_id]
Del(sessions, session_id) ==
    [id \in (DOMAIN sessions) \ {session_id} |-> sessions[id]]

\* raise HTTPException(status_code, detail)
HTTPError(op, session_id, status, detail) ==
    [op |-> op, session_id |-> session_id, status |-> status,
     detail |-> detail, body |-> [success |-> FALSE]]

\* return {"success": True, ...}
OK(op, session_id, body) ==
    [op |-> op, session_id |-> session_id, status |-> 200,
     detail |-> "", body |-> body]

\* resume_parser.parse(content, is_pdf) on an uploaded file: the file says
\* whether its text can be extracted and which skills its text names
ParseResume(file) ==
    [skills |-> file.skills,
     total_skills |-> Len(Flatten([i \in 1..Len(file.skills) |->
                                      file.skills[i].skills]))]

\* jd_parser.parse(jd_text): the text says which skills it names
ParseJD(jd_text) ==
    [required_skills |-> jd_text.skills,
     total_required_skills |->
        Len(Flatten([i \in 1..Len(jd_text.skills) |->
                        jd_text.skills[i].skills]))]

upload_resume(file) ==
    /\ UNCHANGED <<clock, probe>>
    /\ IF file.content_type \notin allowed_types
       THEN \* the HTTPException(400) is caught by "except Exception"
            /\ response' = HTTPError("upload_resume", "", 500,
                   "Error parsing resume: 400: Only PDF and TXT files are supported")
            /\ UNCHANGED active_sessions
       ELSE IF ~file.readable
       THEN /\ response' = HTTPError("upload_resume", "", 500,
                   "Error parsing resume: unreadable file")
            /\ UNCHANGED active_sessions
       ELSE LET resume_data == ParseResume(file)
                session_id == SessionId(clock)
                session == [NewSession(clock) EXCEPT
                               !.resume_data = Some(resume_data)]
            IN  /\ active_sessions' = Put(active_sessions, session_id, session)
                /\ response' = OK("upload_resume", session_id,
                       [success |-> TRUE,
                        skills |-> resume_data.skills,
                        total_skills |-> resume_data.total_skills])

analyze_job_description(session_id, jd_text) ==
    /\ UNCHANGED <<clock, probe>>
    /\ IF session_id \notin DOMAIN active_sessions
       THEN /\ response' = HTTPError("analyze_job_description", session_id,
                                     404, "Session not found")
            /\ UNCHANGED active_sessions
       ELSE LET session == active_sessions[session_id] IN
            IF session.resume_data = None
            THEN /\ response' = HTTPError("analyze_job_description",
                                    session_id, 400, "Resume not uploaded yet")
                 /\ UNCHANGED active_sessions
            ELSE LET jd_data == ParseJD(jd_text)
                     skill_match ==
                         compute_skill_match(session.resume_data[1].skills,
                                             jd_data.required_skills)
                 IN  /\ active_sessions' =
                            [active_sessions EXCEPT
                                ![session_id].jd_data = Some(jd_data)]
                     /\ response' = OK("analyze_job_description", session_id,
                            [success |-> TRUE,
                             required_skills |-> jd_data.required_skills,
                             total_required_skills |->
                                 jd_data.total_required_skills,
                             skill_match |-> skill_match])

\* start_interview past its checks (new engines, first question, append):
\* the session and the response body it can end with; picks are the template
\* indices the random source can return
start_effect(session, picks) ==
    LET resume_data == session.resume_data[1]
        jd_data == session.jd_data[1]
    IN  {LET step == conduct_interview(NewEngine, resume_data, jd_data,
                                       skill, pick)
         IN  [session |->
                  [session EXCEPT
                      !.interview_engine = Some(step.engine),
                      !.scoring_engine = Some(weights),
                      !.questions_asked = Append(@, step.question_data)],
              body |-> [success |-> TRUE,
                        question_data |-> step.question_data]] :
            skill \in SkillChoices(resume_data, jd_data),
            pick \in picks \cap TemplateChoices(
                        NewEngine.current_difficulty,
                        get_next_question_type(NewEngine))}

start_interview(session_id, picks) ==
    /\ UNCHANGED <<clock, probe>>
    /\ IF session_id \notin DOMAIN active_sessions
       THEN /\ response' = HTTPError("start_interview", session_id, 404,
                                     "Session not found")
            /\ UNCHANGED active_sessions
       ELSE LET session == active_sessions[session_id] IN
            IF session.resume_data = None \/ session.jd_data = None
            THEN /\ response' = HTTPError("start_interview", session_id, 400,
                      "Resume and JD must be uploaded before starting interview")
                 /\ UNCHANGED active_sessions
            ELSE \E out \in start_effect(session, picks) :
                     /\ active_sessions' =
                            [active_sessions EXCEPT ![session_id] = out.session]
                     /\ response' = OK("start_interview", session_id,
                                       out.body)

\* the check written with > in place of >=
max_questions_reached_late(engine) ==
    engine.question_count > engine.max_questions

\* question_count >= max_questions
max_questions_reached(engine) ==
    engine.question_count >= engine.max_questions

\* the two terminal branches in the other order
Outcome_max_first(should_terminate, max_reached) ==
    IF max_reached THEN "normal_completion"
    ELSE IF should_terminate THEN "early_termination"
    ELSE "continue"

\* the if / elif / else of submit_answer: which of its three responses
Outcome(should_terminate, max_reached) ==
    IF should_terminate THEN "early_termination"
    ELSE IF max_reached THEN "normal_completion"
    ELSE "continue"

\* the list cut to its last three entries
overall_scores_window(scores) ==
    LastN([i \in 1..Len(scores) |-> scores[i].overall], 3)

\* [s['overall'] for s in session.scores]
overall_scores(scores) == [i \in 1..Len(scores) |-> scores[i].overall]

\* not session.interview_engine or not session.scoring_engine
interview_not_started(session) ==
    session.interview_engine = None \/ session.scoring_engine = None

\* a termination branch that also adjusts the difficulty
finish_interview_adjusting(recorded, score, early) ==
    {[session |-> [recorded EXCEPT
                      !.interview_engine =
                          Some(adjust_difficulty(
                                   @[1], overall_scores(recorded.scores)))],
      body |-> [success |-> TRUE,
                current_score |-> score,
                interview_complete |-> TRUE,
                final_results |-> Some(final_results),
                termination_reason |->
                    IF early THEN Some("Performance below threshold")
                    ELSE None,
                early_termination |-> Some(early),
                next_question |-> None,
                difficulty_adjusted |-> None]] :
        final_results \in calculate_final_score(recorded.scores)}

\* the two termination branches of submit_answer: the final report is
\* returned and the session stays as recorded
finish_interview(recorded, score, early) ==
    {[session |-> recorded,
      body |-> [success |-> TRUE,
                current_score |-> score,
                interview_complete |-> TRUE,
                final_results |-> Some(final_results),
                termination_reason |->
                    IF early THEN Some("Performance below threshold")
                    ELSE None,
                early_termination |-> Some(early),
                next_question |-> None,
                difficulty_adjusted |-> None]] :
        final_results \in calculate_final_score(recorded.scores)}

\* difficulty_adjusted reported only for a move upwards
difficulty_adjusted_upwards(new_difficulty, current_question) ==
    \/ new_difficulty = "hard" /\ current_question.difficulty # "hard"
    \/ new_difficulty = "medium" /\ current_question.difficulty = "easy"

\* new_difficulty != current_question['difficulty']
difficulty_adjusted(new_difficulty, current_question) ==
    new_difficulty # current_question.difficulty

\* submit_answer from the recording of the answer on, for the question and
\* the score it holds in its locals: the session and the response body it
\* can end with
submit_rest(session, answer_data, current_question, score, picks) ==
    LET engine == session.interview_engine[1]
        answers_given ==
            Append(session.answers_given,
                   [question_number |-> current_question.question_number,
                    answer |-> answer_data.answer,
                    time_taken |-> answer_data.time_taken])
        scores == Append(session.scores, score)
        recent_overall_scores == overall_scores(scores)
        should_terminate == should_terminate_early(recent_overall_scores)
        outcome == Outcome(should_terminate, max_questions_reached(engine))
        recorded == [session EXCEPT !.answers_given = answers_given,
                                    !.scores = scores]
    IN  IF outcome = "early_termination"
        THEN finish_interview(recorded, score, TRUE)
        ELSE IF outcome = "normal_completion"
        THEN finish_interview(recorded, score, FALSE)
        ELSE
        LET adjusted == adjust_difficulty(engine, recent_overall_scores)
            new_difficulty == adjusted.current_difficulty
            resume_data == session.resume_data[1]
            jd_data == session.jd_data[1]
        IN  {LET step == conduct_interview(adjusted, resume_data, jd_data,
                                           skill, pick)
                 next_question == step.question_data
             IN  [session |->
                      [recorded EXCEPT
                          !.interview_engine = Some(step.engine),
                          !.questions_asked = Append(@, next_question)],
                  body |-> [success |-> TRUE,
                            current_score |-> score,
                            interview_complete |-> FALSE,
                            final_results |-> None,
                            termination_reason |-> None,
                            early_termination |-> None,
                            next_question |-> Some(next_question),
                            difficulty_adjusted |->
                                Some(difficulty_adjusted(
                                         new_difficulty,
                                         current_question))]] :
                skill \in SkillChoices(resume_data, jd_data),
                pick \in picks \cap TemplateChoices(
                            new_difficulty,
                            get_next_question_type(adjusted))}

\* the scores submit_answer can give the answer to the current question
submit_scores(session, answer_data) ==
    LET current_question ==
            session.questions_asked[Len(session.questions_asked)]
    IN  score_answer(current_question.question, answer_data.answer,
                     current_question.expected_topics,
                     answer_data.time_taken, 60)

\* submit_answer past its checks: take the last asked question, score the
\* answer, and go on
submit_effect(session, answer_data, picks) ==
    LET current_question ==
            session.questions_asked[Len(session.questions_asked)]
    IN  UNION {submit_rest(session, answer_data, current_question, score,
                           picks) :
                  score \in submit_scores(session, answer_data)}

\* answer_data is the Answer model; picks as in start_interview
submit_answer(answer_data, picks) ==
    LET session_id == answer_data.session_id IN
    /\ UNCHANGED <<clock, probe>>
    /\ IF session_id \notin DOMAIN active_sessions
       THEN /\ response' = HTTPError("submit_answer", session_id, 404,
                                     "Session not found")
            /\ UNCHANGED active_sessions
       ELSE LET session == active_sessions[session_id] IN
            IF interview_not_started(session)
            THEN /\ response' = HTTPError("submit_answer", session_id, 400,
                                          "Interview not started")
                 /\ UNCHANGED active_sessions
            ELSE IF session.questions_asked = <<>>
            THEN /\ response' = HTTPError("submit_answer", session_id, 400,
                                          "No question to answer")
                 /\ UNCHANGED active_sessions
            ELSE \E out \in submit_effect(session, answer_data, picks) :
                     /\ active_sessions' =
                            [active_sessions EXCEPT ![session_id] = out.session]
                     /\ response' = OK("submit_answer", session_id, out.body)

get_session_status(session_id) ==
    /\ UNCHANGED <<active_sessions, clock, probe>>
    /\ IF session_id \notin DOMAIN active_sessions
       THEN response' = HTTPError("get_session_status", session_id, 404,
                                  "Session not found")
       ELSE LET session == active_sessions[session_id] IN
            response' = OK("get_session_status", session_id,
                [success |-> TRUE,
                 resume_uploaded |-> session.resume_data # None,
                 jd_analyzed |-> session.jd_data # None,
                 interview_started |-> session.interview_engine # None,
                 questions_answered |-> Len(session.answers_given),
                 current_difficulty |->
                     IF session.interview_engine # None
                     THEN Some(session.interview_engine[1].current_difficulty)
                     ELSE None])

\* delete that empties the whole store
delete_session_all(session_id) ==
    /\ UNCHANGED <<clock, probe>>
    /\ IF session_id \in DOMAIN active_sessions
       THEN /\ active_sessions' = [id \in {} |-> NewSession(0)]
            /\ response' = OK("delete_session", session_id,
                              [success |-> TRUE])
       ELSE /\ response' = HTTPError("delete_session", session_id, 404,
                                     "Session not found")
            /\ UNCHANGED active_sessions

\* delete that answers success and leaves the session in the store
delete_session_keeps(session_id) ==
    /\ UNCHANGED <<clock, probe>>
    /\ IF session_id \in DOMAIN active_sessions
       THEN /\ UNCHANGED active_sessions
            /\ response' = OK("delete_session", session_id,
                              [success |-> TRUE])
       ELSE /\ response' = HTTPError("delete_session", session_id, 404,
                                     "Session not found")
            /\ UNCHANGED active_sessions

\* delete that answers success for an id it does not hold
delete_session_lenient(session_id) ==
    /\ UNCHANGED <<clock, probe>>
    /\ active_sessions' = Del(active_sessions, session_id)
    /\ response' = OK("delete_session", session_id, [success |-> TRUE])

delete_session(session_id) ==
    /\ UNCHANGED <<clock, probe>>
    /\ IF session_id \in DOMAIN active_sessions
       THEN /\ active_sessions' = Del(active_sessions, session_id)
            /\ response' = OK("delete_session", session_id,
                              [success |-> TRUE])
       ELSE /\ response' = HTTPError("delete_session", session_id, 404,
                                     "Session not found")
            /\ UNCHANGED active_sessions

\* time passes between two requests
Tick ==
    /\ clock < MaxClock
    /\ clock' = clock + 1
    /\ UNCHANGED <<active_sessions, response, probe>>

\* a handler with an await between the scoring of the answer and its
\* recording
suspension_points_after_scoring(op) ==
    IF op = "submit_answer" THEN {"scored"}
    ELSE IF op = "upload_resume" THEN {"file.read"}
    ELSE {}

\* the awaits inside the body of each handler (async def, run by one event
\* loop): only upload_resume has one
suspension_points(op) ==
    IF op = "upload_resume" THEN {"file.read"} ELSE {}

----------------------------------------------------------------------------
(* Inputs *)

NoSkills == <<>>
PythonSkills == <<[category |-> "languages", skills |-> <<"Python">>]>>

ResumeFiles ==
    {[content_type |-> "text/plain", readable |-> TRUE,
      skills |-> PythonSkills],
     [content_type |-> "application/pdf", readable |-> FALSE,
      skills |-> NoSkills],
     [content_type |-> "image/png", readable |-> TRUE, skills |-> NoSkills]}

JDTexts == {[skills |-> PythonSkills]}

\* every lowercase string a thorough answer can contain that the scorer
\* looks for
EveryTopic ==
    {"python", "docker", "programming", "easy", "medium", "hard",
     "technical", "conceptual", "behavioral", "scenario-based"}

EmptyAnswer ==
    [lead |-> 0, body |-> 0, trail |-> 0, words |-> 0, contains |-> {},
     technical_terms |-> 0, echo |-> 0]

\* forty words with one structure marker, no topic named
FairAnswer ==
    [lead |-> 0, body |-> 240, trail |-> 1, words |-> 40,
     contains |-> {"because"}, technical_terms |-> 2, echo |-> 2]

\* a hundred words naming every topic, repeating the question's words
GoodAnswer ==
    [lead |-> 0, body |-> 650, trail |-> 0, words |-> 100,
     contains |-> EveryTopic \cup {"because", "for example"},
     technical_terms |-> 6, echo |-> 12]

Answers == {EmptyAnswer, GoodAnswer}
Times == {42}

\* the interview run: two kinds of answer, the first template of each pair
RunAnswers == {EmptyAnswer, GoodAnswer}
RunPicks == {1}

\* session ids a request can carry: every id upload_resume can have issued
\* and one it never issues
RequestIds == {SessionId(t) : t \in 0..MaxClock}

\* random.choice over a two-template list returns either index
Picks == {1, 2}

\* no function is being applied on its own
NoProbe == [fn |-> "none", result |-> None]

NoResponse ==
    [op |-> "none", session_id |-> "", status |-> 0, detail |-> "",
     body |-> [success |-> FALSE]]

----------------------------------------------------------------------------
(* The server: any request at any time *)

Init ==
    /\ active_sessions = [id \in {} |-> NewSession(0)]
    /\ clock = 1
    /\ response = NoResponse
    /\ probe = NoProbe

UploadResume == \E file \in ResumeFiles : upload_resume(file)

AnalyzeJD ==
    \E session_id \in RequestIds, jd_text \in JDTexts :
        analyze_job_description(session_id, jd_text)

\* len(questions_asked) of a live session, 0 for an unknown id
Asked(session_id) ==
    IF session_id \in DOMAIN active_sessions
    THEN Len(active_sessions[session_id].questions_asked) ELSE 0

Scored(session_id) ==
    IF session_id \in DOMAIN active_sessions
    THEN Len(active_sessions[session_id].scores) ELSE 0

\* questions asked and scores recorded over all live sessions
RECURSIVE SumOver(_, _)
SumOver(f, ids) ==
    IF ids = {} THEN 0
    ELSE LET id == CHOOSE x \in ids : TRUE
         IN  f[id] + SumOver(f, ids \ {id})

TotalAsked ==
    SumOver([id \in DOMAIN active_sessions |-> Asked(id)],
            DOMAIN active_sessions)

TotalScored ==
    SumOver([id \in DOMAIN active_sessions |-> Scored(id)],
            DOMAIN active_sessions)

StartInterview ==
    \E session_id \in RequestIds :
        /\ TotalAsked < MaxAsked
        /\ start_interview(session_id, Picks)

SubmitAnswer ==
    \E session_id \in RequestIds, answer \in Answers, time_taken \in Times :
        /\ TotalScored < MaxScores
        /\ submit_answer([session_id |-> session_id, answer |-> answer,
                          time_taken |-> time_taken], Picks)

SessionStatus == \E session_id \in RequestIds : get_session_status(session_id)

DeleteSession == \E session_id \in RequestIds : delete_session(session_id)

Next ==
    \/ UploadResume
    \/ AnalyzeJD
    \/ StartInterview
    \/ SubmitAnswer
    \/ SessionStatus
    \/ DeleteSession
    \/ Tick

Spec == Init /\ [][Next]_vars

----------------------------------------------------------------------------
(* One interview session, from upload and JD analysis on: start_interview   *)
(* and submit_answer in any order, up to and beyond the tenth question     *)

RunId == SessionId(1)

InitInterview ==
    /\ active_sessions =
          Put([id \in {} |-> NewSession(0)], RunId,
              [NewSession(1) EXCEPT
                  !.resume_data =
                      Some(ParseResume([content_type |-> "text/plain",
                                        readable |-> TRUE,
                                        skills |-> PythonSkills])),
                  !.jd_data = Some(ParseJD([skills |-> PythonSkills]))])
    /\ clock = 1
    /\ response = NoResponse
    /\ probe = NoProbe

RunStart ==
    /\ Asked(RunId) < MaxRunAsked
    /\ start_interview(RunId, RunPicks)

RunSubmit ==
    \E answer \in RunAnswers, time_taken \in Times :
        /\ Scored(RunId) < MaxRunScores
        /\ submit_answer([session_id |-> RunId, answer |-> answer,
                          time_taken |-> time_taken], RunPicks)

NextInterview == RunStart \/ RunSubmit

SpecInterview == InitInterview /\ [][NextInterview]_vars

----------------------------------------------------------------------------
(* Two sessions side by side, each after its upload: JD analysis,           *)
(* start_interview, submit_answer, status and delete on either, in any      *)
(* order                                                                    *)

PairIds == {SessionId(1), SessionId(2)}

InitPair ==
    /\ active_sessions =
          [id \in PairIds |->
              [NewSession(IF id = SessionId(1) THEN 1 ELSE 2) EXCEPT
                  !.resume_data =
                      Some(ParseResume([content_type |-> "text/plain",
                                        readable |-> TRUE,
                                        skills |-> PythonSkills]))]]
    /\ clock = 2
    /\ response = NoResponse
    /\ probe = NoProbe

NextPair ==
    \E session_id \in PairIds :
        \/ \E jd_text \in JDTexts :
              analyze_job_description(session_id, jd_text)
        \/ /\ Asked(session_id) < MaxPairAsked
           /\ start_interview(session_id, RunPicks)
        \/ \E answer \in RunAnswers, time_taken \in Times :
              /\ Scored(session_id) < MaxPairScores
              /\ submit_answer([session_id |-> session_id, answer |-> answer,
                                time_taken |-> time_taken], RunPicks)
        \/ get_session_status(session_id)
        \/ delete_session(session_id)

SpecPair == InitPair /\ [][NextPair]_vars

----------------------------------------------------------------------------
(* The same session with the count of the submissions made since the last  *)
(* start_interview: probe holds that count and the submission at which     *)
(* interview_complete was first returned (0 while none has)                *)

InitCount ==
    /\ active_sessions =
          Put([id \in {} |-> NewSession(0)], RunId,
              [NewSession(1) EXCEPT
                  !.resume_data =
                      Some(ParseResume([content_type |-> "text/plain",
                                        readable |-> TRUE,
                                        skills |-> PythonSkills])),
                  !.jd_data = Some(ParseJD([skills |-> PythonSkills]))])
    /\ clock = 1
    /\ response = NoResponse
    /\ probe = [fn |-> "interview", started |-> FALSE, submits |-> 0,
                completed_at |-> 0]

CountStart ==
    /\ probe.fn = "interview"
    /\ Asked(RunId) < MaxRunAsked
    /\ \E out \in start_effect(active_sessions[RunId], RunPicks) :
          /\ active_sessions' =
                [active_sessions EXCEPT ![RunId] = out.session]
          /\ response' = OK("start_interview", RunId, out.body)
    /\ probe' = [probe EXCEPT !.started = TRUE, !.submits = 0,
                              !.completed_at = 0]
    /\ UNCHANGED clock

CountSubmit ==
    /\ probe.fn = "interview"
    /\ probe.started
    /\ Scored(RunId) < MaxRunScores
    /\ \E answer \in RunAnswers, time_taken \in Times :
       \E out \in submit_effect(active_sessions[RunId],
                                [session_id |-> RunId, answer |-> answer,
                                 time_taken |-> time_taken], RunPicks) :
          /\ active_sessions' =
                [active_sessions EXCEPT ![RunId] = out.session]
          /\ response' = OK("submit_answer", RunId, out.body)
          /\ probe' = [probe EXCEPT
                          !.submits = @ + 1,
                          !.completed_at =
                              IF @ = 0 /\ out.body.interview_complete
                              THEN probe.submits + 1 ELSE @]
    /\ UNCHANGED clock

NextCount == CountStart \/ CountSubmit

SpecCount == InitCount /\ [][NextCount]_vars

----------------------------------------------------------------------------
(* The same session when its holder also calls the engine's reset()        *)

\* session.interview_engine.reset()
RunReset ==
    /\ active_sessions[RunId].interview_engine # None
    /\ active_sessions' =
           [active_sessions EXCEPT
               ![RunId].interview_engine = Some(reset(@[1]))]
    /\ response' = [NoResponse EXCEPT !.op = "reset", !.session_id = RunId]
    /\ UNCHANGED <<clock, probe>>

ResetStart ==
    /\ Asked(RunId) < MaxResetAsked
    /\ start_interview(RunId, RunPicks)

ResetSubmit ==
    \E answer \in RunAnswers, time_taken \in Times :
        /\ Scored(RunId) < MaxResetScores
        /\ submit_answer([session_id |-> RunId, answer |-> answer,
                          time_taken |-> time_taken], RunPicks)

NextReset == ResetStart \/ ResetSubmit \/ RunReset

SpecReset == InitInterview /\ [][NextReset]_vars

----------------------------------------------------------------------------
(* Requests in flight at the same time on one session whose interview has   *)
(* started.  probe holds the tasks of the event loop; the loop runs one     *)
(* task at a time, from where it stands to its next suspension point.  In   *)
(* every state of this specification the session has its engines and at     *)
(* least one asked question, so the handlers are past their checks.         *)

\* seconds taken by the answers in flight: within the time limit and past it
LoopTimes == {42, 200}

LoopRequests ==
    {[op |-> "start_interview", request |-> [session_id |-> RunId]]}
    \cup {[op |-> "submit_answer",
           request |-> [session_id |-> RunId, answer |-> answer,
                        time_taken |-> time_taken]] :
             answer \in RunAnswers, time_taken \in LoopTimes}

\* how many of the tasks have returned
DoneCount(tasks) == Len(SelectSeq(tasks, LAMBDA task : task.pc = "done"))

InitLoop ==
    \E prepared \in {[NewSession(1) EXCEPT
                         !.resume_data =
                             Some(ParseResume([content_type |-> "text/plain",
                                               readable |-> TRUE,
                                               skills |-> PythonSkills])),
                         !.jd_data =
                             Some(ParseJD([skills |-> PythonSkills]))]} :
    \E out \in start_effect(prepared, RunPicks) :
        /\ active_sessions =
              Put([id \in {} |-> NewSession(0)], RunId, out.session)
        /\ clock = 1
        /\ response = OK("start_interview", RunId, out.body)
        /\ probe = [fn |-> "event_loop",
                    origin |-> out.session,
                    tasks |-> <<>>,
                    finished |-> <<>>]

\* a request arrives: its handler becomes a task of the loop
IssueTask ==
    /\ probe.fn = "event_loop"
    /\ Len(probe.tasks) < MaxTasks
    /\ \E r \in LoopRequests :
          probe' = [probe EXCEPT
                       !.tasks = Append(@,
                           [op |-> r.op, request |-> r.request,
                            pc |-> "ready", locals |-> None,
                            issued_after |-> DoneCount(probe.tasks)])]
    /\ UNCHANGED <<active_sessions, clock, response>>

\* the loop runs task k to its next suspension point, or to its return
RunTask ==
    /\ probe.fn = "event_loop"
    /\ \E k \in 1..Len(probe.tasks) :
          LET task == probe.tasks[k]
              session == active_sessions[RunId]
              Return(out) ==
                  /\ active_sessions' =
                        [active_sessions EXCEPT ![RunId] = out.session]
                  /\ response' = OK(task.op, RunId, out.body)
                  /\ probe' = [probe EXCEPT
                                  !.tasks[k].pc = "done",
                                  !.finished = Append(@, k)]
          IN  /\ task.pc # "done"
              /\ ~interview_not_started(session)
              /\ session.questions_asked # <<>>
              /\ IF task.op = "start_interview"
                 THEN \E out \in start_effect(session, RunPicks) : Return(out)
                 ELSE IF task.pc = "suspended"
                 THEN \E out \in submit_rest(session, task.request,
                                             task.locals[1].current_question,
                                             task.locals[1].score, RunPicks) :
                          Return(out)
                 ELSE IF "scored" \in suspension_points(task.op)
                 THEN /\ \E score \in submit_scores(session, task.request) :
                            probe' = [probe EXCEPT
                                !.tasks[k].pc = "suspended",
                                !.tasks[k].locals =
                                    Some([current_question |->
                                              session.questions_asked[
                                                  Len(session.questions_asked)],
                                          score |-> score])]
                      /\ UNCHANGED <<active_sessions, response>>
                 ELSE \E out \in submit_effect(session, task.request,
                                               RunPicks) :
                          Return(out)
    /\ UNCHANGED clock

NextLoop == IssueTask \/ RunTask

SpecLoop == InitLoop /\ [][NextLoop]_vars

----------------------------------------------------------------------------
(* The engine's and the scorer's functions applied on their own: Init draws *)
(* the arguments into probe, the action applies the function               *)

RECURSIVE SeqsUpTo(_, _)
SeqsUpTo(S, n) ==
    IF n = 0 THEN {<<>>}
    ELSE LET shorter == SeqsUpTo(S, n - 1)
         IN  shorter \cup {Append(q, x) : q \in shorter, x \in S}

DockerSkills == <<[category |-> "cloud", skills |-> <<"Docker">>]>>

\* the skills dicts of the resumes and JDs given to generate_question
QuestionSkills ==
    {NoSkills, PythonSkills, DockerSkills, PythonSkills \o DockerSkills}

InitQuestion ==
    /\ active_sessions = [id \in {} |-> NewSession(0)]
    /\ clock = 1
    /\ response = NoResponse
    /\ \E resume_skills \in QuestionSkills, jd_skills \in QuestionSkills,
          difficulty \in Range(difficulty_levels),
          question_type \in Range(question_types) :
          probe = [fn |-> "generate_question",
                   resume_data |-> ParseResume([content_type |-> "text/plain",
                                                readable |-> TRUE,
                                                skills |-> resume_skills]),
                   jd_data |-> ParseJD([skills |-> jd_skills]),
                   difficulty |-> difficulty,
                   question_type |-> question_type,
                   result |-> None]

ApplyQuestion ==
    /\ probe.fn = "generate_question"
    /\ probe.result = None
    /\ \E skill \in SkillChoices(probe.resume_data, probe.jd_data),
          pick \in TemplateChoices(probe.difficulty, probe.question_type) :
          probe' = [probe EXCEPT
                       !.result = Some(generate_question(
                                           probe.resume_data, probe.jd_data,
                                           probe.difficulty,
                                           probe.question_type, skill, pick))]
    /\ UNCHANGED <<active_sessions, clock, response>>

SpecQuestion == InitQuestion /\ [][ApplyQuestion]_vars

\* skill lists of one category, in either spelling of a skill
MatchLists ==
    {<<>>, <<"Python">>, <<"python", "Docker">>, <<"Docker", "sql">>,
     <<"Python", "Docker", "sql">>}

\* skills dicts of no, one or two categories
MatchDicts ==
    {<<>>}
    \cup {<<[category |-> "languages", skills |-> a]>> : a \in MatchLists}
    \cup {<<[category |-> "languages", skills |-> a],
            [category |-> "cloud", skills |-> b]>> :
              a \in MatchLists, b \in MatchLists}

InitMatch ==
    /\ active_sessions = [id \in {} |-> NewSession(0)]
    /\ clock = 1
    /\ response = NoResponse
    /\ \E resume_skills \in MatchDicts, jd_skills \in MatchDicts :
          probe = [fn |-> "compute_skill_match",
                   resume_skills |-> resume_skills,
                   jd_skills |-> jd_skills,
                   result |-> None]

ApplyMatch ==
    /\ probe.fn = "compute_skill_match"
    /\ probe.result = None
    /\ probe' = [probe EXCEPT
                    !.result = Some(compute_skill_match(probe.resume_skills,
                                                        probe.jd_skills))]
    /\ UNCHANGED <<active_sessions, clock, response>>

SpecMatch == InitMatch /\ [][ApplyMatch]_vars

\* overall scores around the thresholds of adjust_difficulty (40 and 75)
AdjustGrid == {0, 3999, 4000, 4001, 7499, 7500, 7501, 10000}

\* overall scores around the threshold of should_terminate_early (30)
TerminateGrid == {0, 2999, 3000, 3001, 9000, 10000}

InitAdjust ==
    /\ active_sessions = [id \in {} |-> NewSession(0)]
    /\ clock = 1
    /\ response = NoResponse
    /\ \E difficulty \in Range(difficulty_levels),
          recent_scores \in SeqsUpTo(AdjustGrid, MaxListLen) :
          probe = [fn |-> "adjust_difficulty",
                   engine |-> [NewEngine EXCEPT
                                  !.current_difficulty = difficulty],
                   recent_scores |-> recent_scores,
                   result |-> None]

ApplyAdjust ==
    /\ probe.fn = "adjust_difficulty"
    /\ probe.result = None
    /\ probe' = [probe EXCEPT
                    !.result = Some(adjust_difficulty(probe.engine,
                                                      probe.recent_scores))]
    /\ UNCHANGED <<active_sessions, clock, response>>

SpecAdjust == InitAdjust /\ [][ApplyAdjust]_vars

InitTerminate ==
    /\ active_sessions = [id \in {} |-> NewSession(0)]
    /\ clock = 1
    /\ response = NoResponse
    /\ \E recent_scores \in SeqsUpTo(TerminateGrid, MaxListLen) :
          probe = [fn |-> "should_terminate_early",
                   recent_scores |-> recent_scores,
                   result |-> None]

ApplyTerminate ==
    /\ probe.fn = "should_terminate_early"
    /\ probe.result = None
    /\ probe' = [probe EXCEPT
                    !.result = Some(should_terminate_early(probe.recent_scores))]
    /\ UNCHANGED <<active_sessions, clock, response>>

SpecTerminate == InitTerminate /\ [][ApplyTerminate]_vars

InitTime ==
    /\ active_sessions = [id \in {} |-> NewSession(0)]
    /\ clock = 1
    /\ response = NoResponse
    /\ \E time_taken \in (-5)..MaxTime :
          probe = [fn |-> "_calculate_time_score",
                   time_taken |-> time_taken,
                   max_time |-> 60,
                   result |-> None]

ApplyTime ==
    /\ probe.fn = "_calculate_time_score"
    /\ probe.result = None
    /\ probe' = [probe EXCEPT
                    !.result = Some(calculate_time_score(probe.time_taken,
                                                         probe.max_time))]
    /\ UNCHANGED <<active_sessions, clock, response>>

SpecTime == InitTime /\ [][ApplyTime]_vars

\* answers around the guard of score_answer: up to MaxPad whitespace
\* characters before the body, one or none after it, a body of up to
\* MaxBody characters in one word; and the two long answers
GuardAnswers ==
    {[lead |-> lead, body |-> body, trail |-> trail,
      words |-> IF body = 0 THEN 0 ELSE 1, contains |-> contains,
      technical_terms |-> IF body = 0 THEN 0 ELSE 1,
      echo |-> IF body >= 4 THEN 1 ELSE 0] :
        lead \in 0..MaxPad, body \in 0..MaxBody, trail \in 0..1,
        contains \in {{}, {"python"}}}
    \cup {FairAnswer, GoodAnswer}

ProbeQuestions ==
    {Format(QUESTION_BANK["easy"]["technical"][1], "Python"),
     Format(QUESTION_BANK["hard"]["scenario-based"][1], "Python")}

ProbeTopics == {<<>>, <<"Python", "technical", "easy">>}

ProbeTimes == {-1, 0, 42, 75}

ProbeMaxTimes == {30, 60}

InitScore ==
    /\ active_sessions = [id \in {} |-> NewSession(0)]
    /\ clock = 1
    /\ response = NoResponse
    /\ \E answer \in GuardAnswers, question \in ProbeQuestions,
          expected_topics \in ProbeTopics, time_taken \in ProbeTimes,
          max_time \in ProbeMaxTimes :
          probe = [fn |-> "score_answer",
                   question |-> question,
                   answer |-> answer,
                   expected_topics |-> expected_topics,
                   time_taken |-> time_taken,
                   max_time |-> max_time,
                   result |-> None]

ApplyScore ==
    /\ probe.fn = "score_answer"
    /\ probe.result = None
    /\ \E result \in score_answer(probe.question, probe.answer,
                                   probe.expected_topics, probe.time_taken,
                                   probe.max_time) :
          probe' = [probe EXCEPT !.result = Some(result)]
    /\ UNCHANGED <<active_sessions, clock, response>>

SpecScore == InitScore /\ [][ApplyScore]_vars

\* answers past the guard: few to many words, none to many technical terms,
\* with and without a structure marker and the topics, echoing none to all
\* of the question's words
RangeAnswers ==
    {[lead |-> 0, body |-> 6 * words, trail |-> 0, words |-> words,
      contains |-> contains, technical_terms |-> technical_terms,
      echo |-> echo] :
        words \in {2, 50, 100, MaxWords},
        technical_terms \in {0, 6, 40},
        contains \in {{}, {"because"}, {"python"}, EveryTopic \cup {"then"}},
        echo \in {0, 3, 12}}

RangeTopics == {<<>>, <<"Python">>, <<"Python", "technical", "easy">>}

RangeTimes == {-5, 0, 1, 20, 36, 42, 48, 55, 60, 61, 75, MaxTime + 100}

RangeMaxTimes == {-10, 0, 1, 60}

InitRange ==
    /\ active_sessions = [id \in {} |-> NewSession(0)]
    /\ clock = 1
    /\ response = NoResponse
    /\ \E answer \in RangeAnswers \cup {EmptyAnswer},
          question \in ProbeQuestions,
          expected_topics \in RangeTopics, time_taken \in RangeTimes,
          max_time \in RangeMaxTimes :
          probe = [fn |-> "score_answer",
                   question |-> question,
                   answer |-> answer,
                   expected_topics |-> expected_topics,
                   time_taken |-> time_taken,
                   max_time |-> max_time,
                   result |-> None]

ApplyRange ==
    /\ probe.fn = "score_answer"
    /\ probe.result = None
    /\ \E result \in call_score_answer(probe.question, probe.answer,
                                        probe.expected_topics,
                                        probe.time_taken, probe.max_time) :
          probe' = [probe EXCEPT !.result = Some(result)]
    /\ UNCHANGED <<active_sessions, clock, response>>

SpecRange == InitRange /\ [][ApplyRange]_vars

\* a score record with every sub-score, and so the overall score, equal to x
UniformScore(x) ==
    [accuracy |-> x, clarity |-> x, depth |-> x, relevance |-> x,
     time_efficiency |-> x, overall |-> x, feedback |-> ""]

\* a score record with one sub-score on each side of 50 and of 75
MixedScore ==
    [accuracy |-> 10000, clarity |-> 7500, depth |-> 4999, relevance |-> 5000,
     time_efficiency |-> 7499, overall |-> 7250, feedback |-> ""]

\* scores around the thresholds of the report (50, 65, 75 and 80)
ReportGrid ==
    {0, 4999, 5000, 5001, 6499, 6500, 6501, 7499, 7500, 7501, 7999, 8000,
     8001, 10000}

ReportScores == {UniformScore(x) : x \in ReportGrid} \cup {MixedScore}

InitReport ==
    /\ active_sessions = [id \in {} |-> NewSession(0)]
    /\ clock = 1
    /\ response = NoResponse
    /\ \E all_scores \in SeqsUpTo(ReportScores, MaxReportLen) :
          probe = [fn |-> "calculate_final_score",
                   all_scores |-> all_scores,
                   result |-> None]

ApplyReport ==
    /\ probe.fn = "calculate_final_score"
    /\ probe.result = None
    /\ \E report \in calculate_final_score(probe.all_scores) :
          probe' = [probe EXCEPT !.result = Some(report)]
    /\ UNCHANGED <<active_sessions, clock, response>>

SpecReport == InitReport /\ [][ApplyReport]_vars

\* the pieces a text is put together from
TextPieces ==
    {<<"P", "y", "t", "h", "o", "n">>, <<"p", "y", "t", "h", "o", "n">>,
     <<"j", "a", "v", "a">>, <<"s", "c", "r", "i", "p", "t">>,
     <<"c", "+", "+">>, <<"C", "#">>, <<".", "n", "e", "t">>,
     <<"a", "s", "p">>, <<"1", "1">>, <<" ">>, <<",">>}

Texts == {Flatten(pieces) : pieces \in SeqsUpTo(TextPieces, MaxTextParts)}

InitExtract ==
    /\ active_sessions = [id \in {} |-> NewSession(0)]
    /\ clock = 1
    /\ response = NoResponse
    /\ \E text \in Texts, parser \in {"resume_parser", "jd_parser"} :
          probe = [fn |-> "extract_skills",
                   parser |-> parser,
                   text |-> text,
                   result |-> None]

ApplyExtract ==
    /\ probe.fn = "extract_skills"
    /\ probe.result = None
    /\ probe' = [probe EXCEPT
                    !.result =
                        Some(IF probe.parser = "resume_parser"
                             THEN extract_skills(probe.text)
                             ELSE extract_required_skills(probe.text))]
    /\ UNCHANGED <<active_sessions, clock, response>>

SpecExtract == InitExtract /\ [][ApplyExtract]_vars

----------------------------------------------------------------------------
(* Properties *)

StepUp == [easy |-> "medium", medium |-> "hard", hard |-> "hard"]
StepDown == [easy |-> "easy", medium |-> "easy", hard |-> "medium"]

\* C2: adjust_difficulty is a 3-node chain.  For a non-empty score list with
\* mean > 75 the difficulty moves one step up (hard stays hard), with
\* mean < 40 one step down (easy stays easy), with mean in [40, 75] and for
\* the empty list it is unchanged; no call moves easy to hard or hard to easy.
C2_AdjustDifficultyChain ==
    (probe.fn = "adjust_difficulty" /\ probe.result # None) =>
        LET before == probe.engine.current_difficulty
            after == probe.result[1].current_difficulty
            n == Len(probe.recent_scores)
            total == SumSeq(probe.recent_scores)
        IN  /\ n = 0 => after = before
            /\ (n > 0 /\ total > 7500 * n) => after = StepUp[before]
            /\ (n > 0 /\ total < 4000 * n) => after = StepDown[before]
            /\ (n > 0 /\ 4000 * n <= total /\ total <= 7500 * n) =>
                  after = before
            /\ ~(before = "easy" /\ after = "hard")
            /\ ~(before = "hard" /\ after = "easy")
            /\ probe.result[1].question_count = probe.engine.question_count

\* a two-score list whose mean is exactly 75 leaves medium unchanged
C2_Witness ==
    /\ probe.fn = "adjust_difficulty"
    /\ probe.result # None
    /\ probe.engine.current_difficulty = "medium"
    /\ probe.recent_scores = <<7499, 7501>>
    /\ probe.result[1].current_difficulty = "medium"

\* C4: should_terminate_early is false for fewer than 3 scores; for 3 or
\* more it is true exactly when the mean of the last 3 is strictly below 30,
\* whatever the earlier entries are.
C4_TerminateOnLastThree ==
    (probe.fn = "should_terminate_early" /\ probe.result # None) =>
        LET scores == probe.recent_scores
            n == Len(scores)
        IN  probe.result[1] =
               (/\ n >= 3
                /\ scores[n - 2] + scores[n - 1] + scores[n] < 3 * 3000)

\* four scores, the first a perfect one, the last three with a mean of
\* exactly 30: no termination
C4_Witness ==
    /\ probe.fn = "should_terminate_early"
    /\ probe.result = Some(FALSE)
    /\ probe.recent_scores = <<10000, 2999, 3000, 3001>>

\* C9: an answer that is empty or whose trimmed length is under 10 gets all
\* five sub-scores and the overall score 0 and the feedback "Answer is too
\* short or empty.", for every question, topic list, time_taken and max_time.
C9_ShortAnswerScoresZero ==
    (/\ probe.fn = "score_answer"
     /\ probe.result # None
     /\ \/ probe.answer.lead + probe.answer.body + probe.answer.trail = 0
        \/ probe.answer.body < 10) =>
        LET score == probe.result[1]
        IN  /\ \A metric \in Range(Metrics) : score[metric] = 0
            /\ score.overall = 0
            /\ score.feedback = "Answer is too short or empty."

\* eleven characters of which only nine are left after trimming
C9_Witness ==
    /\ probe.fn = "score_answer"
    /\ probe.result # None
    /\ probe.answer.lead = 1 /\ probe.answer.body = 9 /\ probe.answer.trail = 1
    /\ probe.time_taken = 42
    /\ probe.max_time = 60
    /\ probe.result[1].overall = 0
    /\ probe.result[1].time_efficiency = 0

\* C10: with max_time = 60 the time score is 100 exactly on [36, 48], 0 for
\* time_taken <= 0, non-decreasing on [0, 36], non-increasing beyond 48
\* (across 60 too), and beyond 60 it is 50 minus one point per 10 seconds of
\* overage, floored at 0.
C10_TimeScoreShape ==
    (probe.fn = "_calculate_time_score" /\ probe.result # None
        /\ probe.max_time = 60) =>
        LET time_taken == probe.time_taken
            score == probe.result[1]
            next == calculate_time_score(time_taken + 1, 60)
        IN  /\ score = 100 <=> (36 <= time_taken /\ time_taken <= 48)
            /\ time_taken <= 0 => score = 0
            /\ (0 <= time_taken /\ time_taken < 36) => score <= next
            /\ time_taken >= 48 => next <= score
            /\ time_taken > 60 =>
                  score = Max(0, 50 - ((time_taken - 60) \div 10))
            /\ 0 <= score /\ score <= 100

\* the floor: 520 seconds over gives 0, not -2
C10_Witness ==
    /\ probe.fn = "_calculate_time_score"
    /\ probe.time_taken = 580
    /\ probe.result = Some(0)

----------------------------------------------------------------------------
(* Properties of a session *)

Live == DOMAIN active_sessions

\* the engine's counter of a session, 0 while it has no engine
Counter(session) ==
    IF session.interview_engine = None THEN 0
    ELSE session.interview_engine[1].question_count

\* the mean of the last three overall scores is below 30
LowLastThree(session) ==
    LET n == Len(session.scores)
    IN  /\ n >= 3
        /\ session.scores[n - 2].overall + session.scores[n - 1].overall
              + session.scores[n].overall < 9000

\* C1: the question counter stays within 0..10, and conduct_interview is
\* never invoked at 10: no question numbered above 10 is ever issued.
C1_QuestionCountWithinMax ==
    \A id \in Live :
        LET session == active_sessions[id]
        IN  /\ 0 <= Counter(session) /\ Counter(session) <= 10
            /\ \A i \in 1..Len(session.questions_asked) :
                  /\ 1 <= session.questions_asked[i].question_number
                  /\ session.questions_asked[i].question_number <= 10

\* the answer to question 10 was submitted and the interview completed
C1_Witness ==
    /\ Counter(active_sessions[RunId]) = 10
    /\ response.op = "submit_answer"
    /\ response.status = 200
    /\ response.body.interview_complete
    /\ response.body.early_termination = Some(FALSE)
    /\ Len(active_sessions[RunId].questions_asked) = 10

\* C3: every recorded score belongs to exactly one issued question, in
\* order: never more scores than questions asked, and the i-th answer was
\* given to the i-th asked question.
C3_EachScoreHasItsQuestion ==
    \A id \in Live :
        LET session == active_sessions[id]
        IN  /\ Len(session.scores) <= Len(session.questions_asked)
            /\ Len(session.answers_given) = Len(session.scores)
            /\ \A i \in 1..Len(session.answers_given) :
                  /\ i <= Len(session.questions_asked)
                  /\ session.answers_given[i].question_number =
                        session.questions_asked[i].question_number

\* C5: in a submit_answer response, early termination is reported exactly
\* when the mean of the last three overall scores is below 30, also on the
\* answer to question 10; normal completion only with the counter at 10 or
\* more and that mean not below 30.
C5_EarlyTerminationFirst ==
    (response.op = "submit_answer" /\ response.status = 200) =>
        LET session == active_sessions[response.session_id]
            body == response.body
        IN  /\ LowLastThree(session) <=> body.early_termination = Some(TRUE)
            /\ body.early_termination = Some(TRUE) =>
                  /\ body.interview_complete
                  /\ body.termination_reason =
                        Some("Performance below threshold")
            /\ body.early_termination = Some(FALSE) =>
                  /\ body.interview_complete
                  /\ Counter(session) >= 10
                  /\ ~LowLastThree(session)

\* the answer to question 10 brings the mean of the last three below 30,
\* which it was not before that answer
C5_Witness ==
    LET session == active_sessions[RunId]
        n == Len(session.scores)
    IN  /\ response.op = "submit_answer"
        /\ response.status = 200
        /\ response.body.early_termination = Some(TRUE)
        /\ Counter(session) = 10
        /\ n >= 4
        /\ session.answers_given[n].question_number = 10
        /\ session.scores[n - 3].overall + session.scores[n - 2].overall
              + session.scores[n - 1].overall >= 9000

\* the question type of the k-th question of an interview
TypeOfKth(k) ==
    CASE k % 4 = 1 -> "technical"
      [] k % 4 = 2 -> "conceptual"
      [] k % 4 = 3 -> "behavioral"
      [] k % 4 = 0 -> "scenario-based"

\* C6: a step that issues a question raises the counter by exactly one
\* (from 0 for the new engine of start_interview) and the question carries
\* the counter after the increment, the rotation entry of the counter before
\* it, the engine's difficulty and a time limit of 60.
C6_ConductInterviewStep ==
    [][\A id \in Live \cap DOMAIN active_sessions' :
          LET old == active_sessions[id]
              new == active_sessions'[id]
              before == IF response'.op = "start_interview" THEN 0
                        ELSE Counter(old)
              q == new.questions_asked[Len(new.questions_asked)]
          IN  Len(new.questions_asked) = Len(old.questions_asked) + 1 =>
                 /\ Counter(new) = before + 1
                 /\ q.question_number = before + 1
                 /\ q.question_type =
                       <<"technical", "conceptual", "behavioral",
                         "scenario-based">>[(before % 4) + 1]
                 /\ q.question_type = TypeOfKth(q.question_number)
                 /\ q.difficulty = new.interview_engine[1].current_difficulty
                 /\ q.time_limit = 60]_vars

\* the rotation has wrapped: question 4 was scenario-based, question 5 is
\* technical again
C6_Witness ==
    LET asked == active_sessions[RunId].questions_asked
        n == Len(asked)
    IN  /\ n >= 5
        /\ asked[n].question_number = 5
        /\ asked[n].question_type = "technical"
        /\ asked[n - 1].question_type = "scenario-based"

\* C7 as stated: no step makes the counter of a session smaller.
C7_CounterNeverDecreases ==
    [][\A id \in Live \cap DOMAIN active_sessions' :
          Counter(active_sessions'[id]) >= Counter(active_sessions[id])]_vars

\* C7 as amended: the counter starts at 0 and submit_answer never makes it
\* smaller; a successful start_interview leaves it at 1 and reset at 0,
\* whatever it was.
C7_CounterSteps ==
    /\ \A id \in Live : Counter(active_sessions[id]) = 0
    /\ [][\A id \in Live \cap DOMAIN active_sessions' :
             LET old == Counter(active_sessions[id])
                 new == Counter(active_sessions'[id])
             IN  /\ response'.op = "submit_answer" => new >= old
                 /\ (response'.op = "start_interview"
                        /\ response'.status = 200
                        /\ response'.session_id = id) => new = 1
                 /\ (response'.op = "reset" /\ response'.session_id = id) =>
                        new = 0]_vars

\* start_interview on a session whose counter had passed 1, and a reset
C7_Witness ==
    LET session == active_sessions[RunId]
        n == Len(session.questions_asked)
    IN  /\ response.op = "reset"
        /\ Counter(session) = 0
        /\ n >= 3
        /\ session.questions_asked[n].question_number = 1
        /\ session.questions_asked[n - 1].question_number = 2

\* C8: a handler step (the clock does not move) on an unknown session id
\* answers 404 "Session not found"; submit_answer on a session without an
\* engine answers 400 "Interview not started"; start_interview on a session
\* without a JD answers 400 "Resume and JD must be uploaded before starting
\* interview"; none of them changes the store.
C8_PreconditionErrors ==
    [][clock' = clock =>
          LET op == response'.op
              id == response'.session_id
              unknown == id \notin Live
          IN  /\ (op \in {"analyze_job_description", "start_interview",
                          "submit_answer", "get_session_status",
                          "delete_session"} /\ unknown) =>
                    /\ response'.status = 404
                    /\ response'.detail = "Session not found"
                    /\ active_sessions' = active_sessions
              /\ (op = "submit_answer" /\ ~unknown
                     /\ active_sessions[id].interview_engine = None) =>
                    /\ response'.status = 400
                    /\ response'.detail = "Interview not started"
                    /\ active_sessions' = active_sessions
              /\ (op = "start_interview" /\ ~unknown
                     /\ active_sessions[id].jd_data = None) =>
                    /\ response'.status = 400
                    /\ response'.detail =
                          "Resume and JD must be uploaded before starting interview"
                    /\ active_sessions' = active_sessions]_vars

\* submit_answer was refused on a session that has its JD but no interview
C8_Witness ==
    /\ response.op = "submit_answer"
    /\ response.status = 400
    /\ response.detail = "Interview not started"
    /\ response.session_id \in Live
    /\ active_sessions[response.session_id].jd_data # None
    /\ active_sessions[response.session_id].answers_given = <<>>
    /\ active_sessions[response.session_id].scores = <<>>

----------------------------------------------------------------------------
(* Properties of the scorer and the report *)

\* C11: for every answer, question, topic list and integer time_taken and
\* max_time (zero and negative too) score_answer raises nothing and each of
\* the five sub-scores and the overall score is within [0, 100].
C11_ScoresWithinRange ==
    (probe.fn = "score_answer" /\ probe.result # None) =>
        LET score == probe.result[1]
        IN  /\ "error" \notin DOMAIN score
            /\ \A metric \in Range(Metrics) \cup {"overall"} :
                  0 <= score[metric] /\ score[metric] <= 10000

\* max_time = 0 and a long answer: the clarity score is clamped to 100 and
\* the time score comes from the overtime branch
C11_Witness ==
    /\ probe.fn = "score_answer"
    /\ probe.result # None
    /\ probe.max_time = 0
    /\ probe.time_taken = 42
    /\ probe.answer.words > 100
    /\ "because" \in probe.answer.contains
    /\ probe.result[1].clarity = 10000
    /\ probe.result[1].time_efficiency = 4600

\* the sum of a metric over a list of score records
Column(all_scores, metric) ==
    SumSeq([i \in 1..Len(all_scores) |-> all_scores[i][metric]])

\* C12: for a non-empty list the readiness follows the mean of the overall
\* scores over the whole list: >= 80 HIGHLY RECOMMENDED, [65, 80)
\* RECOMMENDED, [50, 65) CONDITIONAL, below 50 NOT RECOMMENDED; the
\* boundaries belong to the higher label.
C12_ReadinessFromMean ==
    (/\ probe.fn = "calculate_final_score"
     /\ probe.result # None
     /\ probe.all_scores # <<>>) =>
        LET n == Len(probe.all_scores)
            total == Column(probe.all_scores, "overall")
            label == probe.result[1].hiring_readiness
        IN  /\ total >= 8000 * n => label = "HIGHLY RECOMMENDED"
            /\ (6500 * n <= total /\ total < 8000 * n) =>
                  label = "RECOMMENDED"
            /\ (5000 * n <= total /\ total < 6500 * n) =>
                  label = "CONDITIONAL"
            /\ total < 5000 * n => label = "NOT RECOMMENDED"

\* two answers, 79.99 and 80.01: the mean is exactly 80
C12_Witness ==
    /\ probe.fn = "calculate_final_score"
    /\ probe.result # None
    /\ probe.all_scores = <<UniformScore(7999), UniformScore(8001)>>
    /\ probe.result[1].hiring_readiness = "HIGHLY RECOMMENDED"
    /\ probe.result[1].final_score = 8000

\* C13: on the empty list the report has final_score 0, the recommendation
\* "Unable to assess - no answers provided" and the readiness
\* "NOT RECOMMENDED".
C13_EmptyListReport ==
    (/\ probe.fn = "calculate_final_score"
     /\ probe.result # None
     /\ probe.all_scores = <<>>) =>
        /\ probe.result[1].final_score = 0
        /\ probe.result[1].recommendation =
              "Unable to assess - no answers provided"
        /\ probe.result[1].hiring_readiness = "NOT RECOMMENDED"

\* the report of the empty list was computed
C13_Witness ==
    /\ probe.fn = "calculate_final_score"
    /\ probe.all_scores = <<>>
    /\ probe.result # None
    /\ probe.result[1].final_score = 0

\* C14: for a non-empty list the strengths are exactly the sub-metrics
\* (never the overall score) averaging >= 75 and the weaknesses exactly
\* those averaging < 50; no metric is in both; an empty list is replaced by
\* the one-element placeholder, so neither list is empty.
C14_StrengthsAndWeaknesses ==
    (/\ probe.fn = "calculate_final_score"
     /\ probe.result # None
     /\ probe.all_scores # <<>>) =>
        LET n == Len(probe.all_scores)
            report == probe.result[1]
            strong == {metric \in Range(Metrics) :
                          Column(probe.all_scores, metric) >= 7500 * n}
            weak == {metric \in Range(Metrics) :
                        Column(probe.all_scores, metric) < 5000 * n}
        IN  /\ Range(report.strengths) =
                  IF strong = {} THEN {"None identified"}
                  ELSE {Title(metric) : metric \in strong}
            /\ Range(report.weaknesses) =
                  IF weak = {} THEN {"None identified"}
                  ELSE {Title(metric) : metric \in weak}
            /\ Len(report.strengths) = Max(1, Cardinality(strong))
            /\ Len(report.weaknesses) = Max(1, Cardinality(weak))
            /\ "Overall" \notin Range(report.strengths)
                                   \cup Range(report.weaknesses)
            /\ Range(report.strengths) \cap Range(report.weaknesses)
                  \subseteq {"None identified"}

\* one answer with clarity exactly 75 (a strength), relevance exactly 50
\* (not a weakness), depth 49.99 (a weakness) and time 74.99 (neither)
C14_Witness ==
    /\ probe.fn = "calculate_final_score"
    /\ probe.result # None
    /\ probe.all_scores = <<MixedScore>>
    /\ probe.result[1].strengths = <<"Accuracy", "Clarity">>
    /\ probe.result[1].weaknesses = <<"Depth">>

----------------------------------------------------------------------------
(* Properties of skill extraction *)

\* a letter or a digit
IsAlnum(c) == c \in Range(UpperCase) \cup Range(LowerCase) \cup Digits

\* the term occurs in the text with no letter or digit next to it
OccursAsWord(chars, text) ==
    \E p \in 1..(Len(text) - Len(chars) + 1) :
        /\ SubSeq(text, p, p + Len(chars) - 1) = chars
        /\ (p = 1 \/ ~IsAlnum(text[p - 1]))
        /\ (p + Len(chars) > Len(text) \/ ~IsAlnum(text[p + Len(chars)]))

\* the skills reported under a category
Reported(result, category) ==
    UNION {Range(result[i].skills) :
              i \in {j \in 1..Len(result) : result[j].category = category}}

\* C15: a vocabulary term is reported exactly when it occurs in the text as
\* a whole word in any letter case, also the terms that begin or end with a
\* non-alphanumeric character ('c++', 'c#', '.net'); a category without a
\* match is left out and the empty text gives the empty mapping.
C15_WholeWordMatch ==
    (probe.fn = "extract_skills" /\ probe.result # None) =>
        LET result == probe.result[1]
            text == lower(probe.text)
        IN  /\ \A c \in 1..Len(tech_skills) :
                  \A k \in 1..Len(tech_skills[c].skills) :
                      LET skill == tech_skills[c].skills[k]
                      IN  skill.title \in
                              Reported(result, tech_skills[c].category)
                          <=> OccursAsWord(skill.chars, text)
            /\ \A i \in 1..Len(result) : result[i].skills # <<>>
            /\ probe.text = <<>> => result = <<>>

----------------------------------------------------------------------------
(* Properties of the session store *)

C17_DifficultyFromFullHistory ==
    [][\A id \in Live \cap DOMAIN active_sessions' :
          (/\ response'.op = "submit_answer"
           /\ response'.session_id = id
           /\ response'.status = 200
           /\ ~response'.body.interview_complete) =>
              LET old == active_sessions[id]
                  new == active_sessions'[id]
                  n == Len(new.scores)
                  total == Column(new.scores, "overall")
                  before == old.interview_engine[1].current_difficulty
                  expected ==
                      IF total > 7500 * n THEN StepUp[before]
                      ELSE IF total < 4000 * n THEN StepDown[before]
                      ELSE before
                  asked == new.questions_asked
              IN  /\ n = Len(old.scores) + 1
                  /\ Len(asked) = Len(old.questions_asked) + 1
                  /\ asked[Len(asked)] = response'.body.next_question[1]
                  /\ asked[Len(asked)].difficulty = expected
                  /\ new.interview_engine[1].current_difficulty = expected]_vars

\* three full scores then two zeros: the mean of all five is 60 and the
\* difficulty stays hard, while the last three alone average 33.3
C17_Witness ==
    LET session == active_sessions[RunId]
        asked == session.questions_asked
    IN  /\ response.op = "submit_answer"
        /\ response.status = 200
        /\ ~response.body.interview_complete
        /\ overall_scores(session.scores) = <<10000, 10000, 10000, 0, 0>>
        /\ asked[Len(asked)].difficulty = "hard"
        /\ asked[Len(asked)].question_number = 6

----------------------------------------------------------------------------
(* Properties of requests in flight together *)

\* the sessions a handler run as a whole can leave
TaskEffect(session, task) ==
    IF task.op = "start_interview"
    THEN {out.session : out \in start_effect(session, RunPicks)}
    ELSE {out.session : out \in submit_effect(session, task.request,
                                              RunPicks)}

\* the sessions left by running the handlers one after the other in an order
RECURSIVE RunInOrder(_, _, _)
RunInOrder(sessions, tasks, order) ==
    IF order = <<>> THEN sessions
    ELSE RunInOrder(UNION {TaskEffect(session, tasks[Head(order)]) :
                              session \in sessions},
                    tasks, Tail(order))

\* C18: handlers on one session never interleave: no task is ever suspended
\* inside start_interview or submit_answer, and the session is always one
\* that running the returned handlers one after the other, in the order in
\* which they returned, produces from the session they were issued on; each
\* returned submission has appended one answer and one score.
C18_HandlersRunOneAfterTheOther ==
    probe.fn = "event_loop" =>
        LET tasks == probe.tasks
            session == active_sessions[RunId]
            submitted == {k \in Range(probe.finished) :
                             tasks[k].op = "submit_answer"}
        IN  /\ \A k \in 1..Len(tasks) : tasks[k].pc \in {"ready", "done"}
            /\ session \in RunInOrder({probe.origin}, tasks, probe.finished)
            /\ Len(session.answers_given) =
                  Len(probe.origin.answers_given) + Cardinality(submitted)
            /\ Len(session.scores) =
                  Len(probe.origin.scores) + Cardinality(submitted)

\* two submissions were in flight together and the one issued second
\* returned first
C18_Witness ==
    /\ probe.fn = "event_loop"
    /\ Len(probe.tasks) >= 2
    /\ probe.tasks[1].op = "submit_answer"
    /\ probe.tasks[2].op = "submit_answer"
    /\ probe.tasks[1].issued_after = 0
    /\ probe.tasks[2].issued_after = 0
    /\ probe.finished = <<2, 1>>
    /\ Len(active_sessions[RunId].scores) = 2

----------------------------------------------------------------------------
(* Properties of question generation *)

\* the template with the skill written in the place of its placeholder
Substituted(template, skill) ==
    [i \in 1..Len(template.parts) |->
        IF template.parts[i] = "{skill}" THEN skill ELSE template.parts[i]]

\* C19: generate_question takes its skill from the union of the resume's
\* and the JD's skills ("programming" when there is none), returns the
\* expected topics [skill, question type, difficulty], and returns one of
\* the two templates of (difficulty, question type) with the skill in its
\* placeholder, so that the text contains the skill.
C19_QuestionNamesTheSkill ==
    (probe.fn = "generate_question" /\ probe.result # None) =>
        LET question == probe.result[1].question
            expected_topics == probe.result[1].expected_topics
            skill == expected_topics[1]
            union == AllSkills(probe.resume_data.skills)
                     \cup AllSkills(probe.jd_data.required_skills)
            templates == QUESTION_BANK[probe.difficulty][probe.question_type]
        IN  /\ IF union = {} THEN skill = "programming" ELSE skill \in union
            /\ expected_topics =
                  <<skill, probe.question_type, probe.difficulty>>
            /\ Len(templates) = 2
            /\ \E k \in 1..2 :
                  question.parts = Substituted(templates[k], skill)
            /\ skill \in Range(question.parts)

----------------------------------------------------------------------------
(* Properties of the length of an interview *)

\* C20: a started interview completes within ten submissions: while no
\* submission since the last start_interview has returned interview_complete
\* the counter is one more than the number of those submissions and at most
\* 10, so the tenth of them returns it; and a submission that answers
\* question 10 never returns a next question.
C20_CompletesWithinTenAnswers ==
    (probe.fn = "interview" /\ probe.started) =>
        LET session == active_sessions[RunId]
            engine == session.interview_engine[1]
        IN  /\ engine.question_count <= max_questions
            /\ probe.completed_at <= max_questions
            /\ probe.completed_at = 0 =>
                  /\ probe.submits < max_questions
                  /\ engine.question_count = probe.submits + 1
            /\ (response.op = "submit_answer"
                /\ ~response.body.interview_complete) =>
                  /\ response.body.next_question # None
                  /\ response.body.next_question[1].question_number
                        <= max_questions
                  /\ session.answers_given[Len(session.answers_given)]
                        .question_number < max_questions

\* ten submissions were needed: the tenth was the first to return
\* interview_complete, and not as an early termination
C20_Witness ==
    /\ probe.fn = "interview"
    /\ probe.submits = 10
    /\ probe.completed_at = 10
    /\ response.op = "submit_answer"
    /\ response.body.interview_complete
    /\ response.body.early_termination = Some(FALSE)

----------------------------------------------------------------------------
(* Properties of the course of one interview *)

\* the levels one step or none away from a level
Adjacent(difficulty) ==
    {difficulty, StepUp[difficulty], StepDown[difficulty]}

\* C21: the question start_interview issues is number 1, easy, technical;
\* the question a continuing submit_answer issues has a difficulty equal or
\* adjacent to that of the question just answered; no asked question with a
\* number below 3 is hard.
C21_DifficultyMovesOneStep ==
    [][\A id \in Live \cap DOMAIN active_sessions' :
          (response'.session_id = id /\ response'.status = 200) =>
              LET old == active_sessions[id].questions_asked
                  new == active_sessions'[id].questions_asked
                  issued == new[Len(new)]
              IN  /\ response'.op = "start_interview" =>
                        /\ new = Append(old, issued)
                        /\ issued.question_number = 1
                        /\ issued.difficulty = "easy"
                        /\ issued.question_type = "technical"
                  /\ (/\ response'.op = "submit_answer"
                      /\ ~response'.body.interview_complete) =>
                        /\ new = Append(old, issued)
                        /\ issued.difficulty
                              \in Adjacent(old[Len(old)].difficulty)
                  /\ \A i \in 1..Len(new) :
                        new[i].question_number < 3 =>
                            new[i].difficulty # "hard"]_vars

\* the fastest climb: questions 1, 2 and 3 are easy, medium and hard
C21_Witness ==
    LET asked == active_sessions[RunId].questions_asked
    IN  /\ Len(asked) = 3
        /\ asked[1].difficulty = "easy"
        /\ asked[2].difficulty = "medium"
        /\ asked[3].difficulty = "hard"
        /\ asked[3].question_number = 3

\* C22: a successful start_interview leaves the session with exactly one
\* asked question (number 1, easy, technical) and with no recorded answers
\* or scores, also when it is called again on the same session.
C22_StartBeginsFresh ==
    [][\A id \in Live \cap DOMAIN active_sessions' :
          (/\ response'.op = "start_interview"
           /\ response'.session_id = id
           /\ response'.status = 200) =>
              LET new == active_sessions'[id]
              IN  /\ Len(new.questions_asked) = 1
                  /\ new.questions_asked[1].question_number = 1
                  /\ new.questions_asked[1].difficulty = "easy"
                  /\ new.questions_asked[1].question_type = "technical"
                  /\ new.answers_given = <<>>
                  /\ new.scores = <<>>]_vars

\* C23: once a submit_answer since the last start_interview has returned
\* interview_complete, every later submit_answer returns it too and issues
\* no further question.
C23_CompletionIsFinal ==
    (/\ probe.fn = "interview"
     /\ probe.completed_at > 0
     /\ response.op = "submit_answer") =>
        /\ response.body.interview_complete
        /\ response.body.next_question = None

\* C24: in every final report total_questions is the number of questions
\* asked in the session, and it is exactly 10 when the report comes from a
\* normal completion (early_termination false).
C24_ReportCountsAskedQuestions ==
    \A id \in Live :
        (/\ response.op = "submit_answer"
         /\ response.session_id = id
         /\ response.status = 200
         /\ response.body.interview_complete) =>
            LET report == response.body.final_results[1]
                asked == active_sessions[id].questions_asked
            IN  /\ report.total_questions = Some(Len(asked))
                /\ response.body.early_termination = Some(FALSE) =>
                      report.total_questions = Some(max_questions)

\* C25: a submit_answer that returns interview_complete appends the answer
\* and its score and leaves the engine (difficulty and counter) and the list
\* of asked questions as they were.
C25_TerminalSubmissionFrame ==
    [][\A id \in Live \cap DOMAIN active_sessions' :
          (/\ response'.op = "submit_answer"
           /\ response'.session_id = id
           /\ response'.status = 200
           /\ response'.body.interview_complete) =>
              LET old == active_sessions[id]
                  new == active_sessions'[id]
                  answer == new.answers_given[Len(new.answers_given)]
              IN  /\ new.answers_given = Append(old.answers_given, answer)
                  /\ answer.question_number =
                        old.questions_asked[Len(old.questions_asked)]
                            .question_number
                  /\ new.scores =
                        Append(old.scores, response'.body.current_score)
                  /\ new.interview_engine = old.interview_engine
                  /\ new.questions_asked = old.questions_asked
                  /\ response'.body.next_question = None]_vars

\* an early termination while the engine is above easy and the mean of all
\* scores is below 40: adjust_difficulty would have lowered the difficulty
C25_Witness ==
    LET session == active_sessions[RunId]
    IN  /\ response.op = "submit_answer"
        /\ response.status = 200
        /\ response.body.interview_complete
        /\ response.body.early_termination = Some(TRUE)
        /\ session.interview_engine[1].current_difficulty # "easy"
        /\ Column(session.scores, "overall") < 4000 * Len(session.scores)

\* C26: in a continuing submit_answer response difficulty_adjusted is true
\* exactly when the next question's difficulty differs from the difficulty
\* of the question just answered.
C26_DifficultyAdjustedFlag ==
    [][\A id \in Live \cap DOMAIN active_sessions' :
          (/\ response'.op = "submit_answer"
           /\ response'.session_id = id
           /\ response'.status = 200
           /\ ~response'.body.interview_complete) =>
              LET old == active_sessions[id]
                  new == active_sessions'[id]
                  answered == old.questions_asked[Len(old.questions_asked)]
                  answer == new.answers_given[Len(new.answers_given)]
                  next_question == response'.body.next_question[1]
              IN  /\ answer.question_number = answered.question_number
                  /\ response'.body.difficulty_adjusted =
                        Some(next_question.difficulty # answered.difficulty)]_vars

\* a continuing response whose next question is a level below the answered
\* one, and reports the adjustment
C26_Witness ==
    LET asked == active_sessions[RunId].questions_asked
    IN  /\ response.op = "submit_answer"
        /\ response.status = 200
        /\ ~response.body.interview_complete
        /\ response.body.difficulty_adjusted = Some(TRUE)
        /\ Len(asked) >= 2
        /\ asked[Len(asked) - 1].difficulty = "medium"
        /\ asked[Len(asked)].difficulty = "easy"

----------------------------------------------------------------------------
(* Properties of sessions side by side *)

\* C27: a request that names session A (JD analysis, start_interview,
\* submit_answer, status or delete, whatever its outcome) leaves every other
\* live session in the store with every field as it was.
C27_SessionsAreIsolated ==
    [][\A A \in PairIds :
          (/\ response'.session_id = A
           /\ response'.op \in {"analyze_job_description", "start_interview",
                                "submit_answer", "get_session_status",
                                "delete_session"}) =>
              \A B \in Live \ {A} :
                  /\ B \in DOMAIN active_sessions'
                  /\ active_sessions'[B] = active_sessions[B]]_vars

\* interleaved interviews: the first session has just had an answer scored
\* and stays easy while the second, with an answer scored too, is at medium
C27_Witness ==
    /\ PairIds \subseteq Live
    /\ response.op = "submit_answer"
    /\ response.session_id = SessionId(1)
    /\ response.status = 200
    /\ Len(active_sessions[SessionId(1)].scores) = 2
    /\ active_sessions[SessionId(1)].interview_engine[1].current_difficulty
          = "easy"
    /\ Len(active_sessions[SessionId(2)].scores) = 1
    /\ active_sessions[SessionId(2)].interview_engine[1].current_difficulty
          = "medium"

----------------------------------------------------------------------------
(* Properties of session creation *)

\* C28: a successful upload_resume adds one session under an id that no live
\* session has, and leaves every live session as it was, also when the clock
\* has not moved since the previous upload.
C28_UploadCreatesDistinctSession ==
    [][(/\ response'.op = "upload_resume"
        /\ response'.status = 200
        /\ clock' = clock) =>
          /\ response'.session_id \notin Live
          /\ DOMAIN active_sessions' = Live \cup {response'.session_id}
          /\ Cardinality(DOMAIN active_sessions') = Cardinality(Live) + 1
          /\ \A B \in Live : active_sessions'[B] = active_sessions[B]]_vars

----------------------------------------------------------------------------
(* Properties of the skill match *)

\* C29: matched_skills and missing_skills partition the case-folded JD skill
\* set (matched are those the resume has, missing those it lacks), the
\* totals are their sizes, and match_percentage lies in [0, 100], is 100
\* exactly when the JD set is not empty and nothing is missing, and is 0 when
\* the JD set is empty.
C29_MatchPartitionsJDSkills ==
    (probe.fn = "compute_skill_match" /\ probe.result # None) =>
        LET match == probe.result[1]
            jd == {Lower(x) : x \in AllSkills(probe.jd_skills)}
            resume == {Lower(x) : x \in AllSkills(probe.resume_skills)}
        IN  /\ match.matched_skills \cap match.missing_skills = {}
            /\ match.matched_skills \cup match.missing_skills = jd
            /\ match.matched_skills \subseteq resume
            /\ match.missing_skills \cap resume = {}
            /\ match.total_jd_skills = Cardinality(jd)
            /\ match.total_matched + Cardinality(match.missing_skills)
                  = match.total_jd_skills
            /\ match.match_percentage \in 0..10000
            /\ match.match_percentage = 10000
                  <=> (jd # {} /\ match.missing_skills = {})
            /\ jd = {} => match.match_percentage = 0

\* one of three JD skills matched, across spellings: the resume
\* writes Python, the JD python
C29_Witness ==
    /\ probe.fn = "compute_skill_match"
    /\ probe.result # None
    /\ "Python" \in AllSkills(probe.resume_skills)
    /\ "python" \notin AllSkills(probe.resume_skills)
    /\ "Python" \notin AllSkills(probe.jd_skills)
    /\ "python" \in probe.result[1].matched_skills
    /\ probe.result[1].missing_skills # {}
    /\ probe.result[1].match_percentage = 3333

====
